---- MODULE Spec2Model ----
(***************************************************************************)
(* ao-lens: security audit of AO/Lua handler files.                        *)
(*                                                                         *)
(* The module models                                                       *)
(*   - the handler extraction and the ProcessContext builder,              *)
(*   - the check registry loop of SecurityAnalyzer (try/catch per check,   *)
(*     deduplicate + sort),                                                *)
(*   - the SecurityAnalyzerAdapter (dynamic rules, per-file report,        *)
(*     analyzeMultiple and its pass flag),                                 *)
(*   - the diff engine (diffAuditResults).                                 *)
(*                                                                         *)
(* A source file is represented by what the analyzers look at: the         *)
(* handler registration calls of its syntax tree (each with the statement  *)
(* nodes of its matcher and body, a node carrying its type, its start line *)
(* and the substrings of interest its text contains) and its raw lines as  *)
(* seen by the dynamic rules (sequences of characters).                    *)
(***************************************************************************)
EXTENDS Integers, Sequences, FiniteSets, TLC

VARIABLES
    pc,        \* "idle" | "analyzed" | "reported" | "rerun" | "batch" | "diffed"
               \* | "audited" | "failed" (an exception left the audit)
    input,     \* the file handed to the last analyze call
    rules,     \* the dynamic rules the adapter's RuleLoader holds
    thrown,    \* ids of the checks whose evaluator threw during the last run
    analysis,  \* SecurityAnalysisResult of the last analyzeWithContext
    report,    \* SecurityReport of the last adapter.analyze
    prevReport,\* report of the run before a re-run on the same input
    batch,     \* result of the last analyzeMultiple
    diffIn,    \* [baseline, current]: the two audit results handed to the diff
    diff,      \* DiffResult of the last diffAuditResults
    skills,    \* the skill files handed to RuleLoader.loadFromSkillsDirectory
    parsed     \* the ParseResults of the files of the last audit command

vars == <<pc, input, rules, thrown, analysis, report, prevReport, batch, diffIn, diff,
          skills, parsed>>

----------------------------------------------------------------------------
(* Bounds of the model *)

MaxHandlers == 2        \* handler registrations per file handed to analyzeWithContext
MaxRules == 2           \* dynamic rules held by the rule loader
MaxBatchFiles == 2      \* files handed to analyzeMultiple
MaxBatchRules == 1      \* dynamic rules held by the loader during analyzeMultiple
NumLines == 2           \* lines of a source file
MaxFaultHandlers == 1   \* handler registrations per file when evaluators throw
MaxThrowing == 1        \* checks whose evaluator throws during one run
MaxBaseline == 2        \* findings of the baseline audit handed to the diff
MaxCurrent == 2         \* findings of the current audit handed to the diff
MaxAuditFiles == 2      \* files of an audit command
MaxEntries == 2         \* anti_patterns entries of a skill file
NumOwnerLines == 3      \* lines of a source with owner assignments
MaxBodyHandlers == 2    \* Handlers.add calls of a file, one per line
MaxMatcherHandlers == 2 \* Handlers.add calls with inline matchers of a file
NumRuleLines == 7       \* lines of a source audited with one guarded rule
MaxScanBody == 3        \* lines of the handler function of a scanned module
NumGuardLines == 7      \* lines of a source that starts with an owner fallback
MaxIdioms == 3          \* owner initialisations of a source
MaxStatements == 2      \* statements of a program searched for state accesses

Names == {"Update", "Get"}
LineNos == 1..NumLines
\* lines on which the registration calls of a file start
RegLines == {1, 2}

----------------------------------------------------------------------------
(* Generic helpers *)

RECURSIVE SeqsUpTo(_, _)
SeqsUpTo(S, n) ==
    IF n = 0 THEN {<<>>}
    ELSE LET shorter == SeqsUpTo(S, n - 1)
         IN shorter \cup {Append(s, x) : s \in {t \in shorter : Len(t) = n - 1}, x \in S}

RECURSIVE Flatten(_)
Flatten(ss) == IF ss = <<>> THEN <<>> ELSE Head(ss) \o Flatten(Tail(ss))

RECURSIVE UnionAll(_)
UnionAll(ss) == IF ss = <<>> THEN {} ELSE Head(ss) \cup UnionAll(Tail(ss))

MapSeq(s, F(_)) == [i \in 1..Len(s) |-> F(s[i])]

Count(s, P(_)) == Cardinality({i \in 1..Len(s) : P(s[i])})

Max(a, b) == IF a > b THEN a ELSE b
Min(a, b) == IF a < b THEN a ELSE b

\* lines.slice(from, to) with 0-based bounds, as the set of the 1-based line numbers
Slice(lines, from, to) == (Max(0, from) + 1)..Min(to, Len(lines))

----------------------------------------------------------------------------
(* Syntax tree of a file, as far as the analyzers read it *)

Stmt(t, ln, tk, w) == [type |-> t, line |-> ln, toks |-> tk, writes |-> w]

\* State.Data = msg.Data
StWrite(ln) == Stmt("assignment_statement", ln, {"msg.Data"}, TRUE)
\* assert(msg.From == State.Owner, "Unauthorized")
StAssertAuth(ln) == Stmt("function_call", ln, {"assert", "msg.From", "State.Owner"}, FALSE)
\* if msg.From ~= State.Owner then return false end
StIfAuth(ln) == Stmt("if_statement", ln, {"msg.From", "State.Owner"}, FALSE)
\* return msg.From == State.Owner
StReturnAuth(ln) == Stmt("return_statement", ln, {"msg.From", "State.Owner"}, FALSE)
\* assert(not State.Frozen, "Frozen")
StAssertNotFrozen(ln) == Stmt("function_call", ln, {"assert", "State.Frozen"}, FALSE)
\* assert(msg.Data ~= nil, "No data")
StAssertData(ln) == Stmt("function_call", ln, {"assert", "msg.Data"}, FALSE)
\* State.LastCaller = msg.From
StRecordSender(ln) == Stmt("assignment_statement", ln, {"msg.From"}, TRUE)
\* msg.reply({ Data = "OK" })
StReply(ln) == Stmt("function_call", ln, {"msg.reply"}, FALSE)

\* The matchers of the model: second argument of Handlers.add
MatcherKinds == {"hasMatchingTag", "fn_if_from", "fn_return_from"}

MatcherType(m) == IF m = "hasMatchingTag" THEN "function_call" ELSE "function_definition"

\* return <checks joined by and>, e.g.
\* return msg.From == State.Owner and type(msg.Data) == "string" and not State.Frozen
StReturn(ln, tk) == Stmt("return_statement", ln, tk, FALSE)

\* inline matchers by what they check: nothing (return true), the payload
\* type, the stop flag, and combinations with the sender
InlineMatcherKinds == {"fn_true", "fn_type", "fn_frozen", "fn_from_type", "fn_from_frozen",
                       "fn_type_frozen", "fn_from_type_frozen", "fn_return_from"}

MatcherStmts(m, ln) ==
    CASE m = "hasMatchingTag" -> <<>>
      [] m = "fn_if_from" -> <<StIfAuth(ln)>>
      [] m = "fn_return_from" -> <<StReturnAuth(ln)>>
      [] m = "fn_true" -> <<StReturn(ln, {"true"})>>
      [] m = "fn_type" -> <<StReturn(ln, {"type("})>>
      [] m = "fn_frozen" -> <<StReturn(ln, {"State.Frozen"})>>
      [] m = "fn_from_type" -> <<StReturn(ln, {"msg.From", "State.Owner", "type("})>>
      [] m = "fn_from_frozen" -> <<StReturn(ln, {"msg.From", "State.Owner", "State.Frozen"})>>
      [] m = "fn_type_frozen" -> <<StReturn(ln, {"type(", "State.Frozen"})>>
      [] m = "fn_from_type_frozen" ->
             <<StReturn(ln, {"msg.From", "State.Owner", "type(", "State.Frozen"})>>

\* The handler bodies of the model ("write", "assert_write", "frozen_write",
\* "check_record", "reply"): last argument of the registration
BodyStmts(b, ln) ==
    CASE b = "write" -> <<StWrite(ln)>>
      [] b = "assert_write" -> <<StAssertAuth(ln), StWrite(ln)>>
      [] b = "frozen_write" -> <<StAssertNotFrozen(ln), StWrite(ln)>>
      [] b = "check_record" -> <<StAssertData(ln), StRecordSender(ln)>>
      [] b = "reply" -> <<StReply(ln)>>

\* Handlers.add(name, matcher, body), written on one line
HandlersAdd(n, ln, m, b) ==
    [call |-> "Handlers.add", name |-> n, line |-> ln, end_line |-> ln,
     matcherType |-> MatcherType(m), matcher |-> MatcherStmts(m, ln),
     options |-> {}, body |-> BodyStmts(b, ln)]

\* Safe.handler(name, {options}, body), written on one line
SafeHandler(n, ln, opts, b) ==
    [call |-> "Safe.handler", name |-> n, line |-> ln, end_line |-> ln,
     matcherType |-> "table_constructor", matcher |-> <<>>,
     options |-> opts, body |-> BodyStmts(b, ln)]

\* the (matcher, body) pairs of the Handlers.add calls and the
\* (options, body) pairs of the Safe.handler calls of the model
AddKinds == (MatcherKinds \X {"write"})
            \cup {<<"hasMatchingTag", "assert_write">>, <<"fn_if_from", "assert_write">>,
                  <<"hasMatchingTag", "reply">>}
SafeKinds == {<<{}, "write">>, <<{}, "reply">>,
              <<{"owner=false"}, "write">>, <<{"owner=false"}, "assert_write">>,
              <<{"frozen=false"}, "frozen_write">>}

Registrations ==
    {HandlersAdd(n, ln, k[1], k[2]) : n \in Names, ln \in RegLines, k \in AddKinds}
    \cup {SafeHandler(n, ln, k[1], k[2]) : n \in Names, ln \in RegLines, k \in SafeKinds}

\* Paths of the analyzed files
Paths == { <<"src", "process.lua">>, <<"src", "lib", "safe.lua">>,
           <<"src", "test", "process.lua">>, <<"src", "process_test.lua">> }

\* Raw lines as the dynamic rules see them: "x" is text the rule pattern
\* matches, "g" text the guard pattern matches, "." anything else
Chars == {"x", "."}
LineTexts == {<<c>> : c \in Chars}

\* the text of a whole registration call node contains the text of its arguments
RegToks(r) == UnionAll(MapSeq(r.matcher, LAMBDA s : s.toks)) \cup
              UnionAll(MapSeq(r.body, LAMBDA s : s.toks))

\* nodes of one registration in document order (walkTree is pre-order)
RegNodes(r) ==
    <<Stmt("function_call", r.line, RegToks(r), FALSE)>>
    \o (IF r.matcherType = "function_call"
        THEN <<Stmt("function_call", r.line, {}, FALSE)>> ELSE <<>>)
    \o r.matcher \o r.body

TreeNodes(regs) == Flatten(MapSeq(regs, RegNodes))

----------------------------------------------------------------------------
(* HandlerAnalyzer *)

MatcherText(r) == UnionAll(MapSeq(r.matcher, LAMBDA s : s.toks))

\* variant: a stop-flag check alone does not make a matcher moderate
analyzeInlineMatcherNoFrozen(r) ==
    LET bodyText == MatcherText(r)
        checksFrom == "msg.From" \in bodyText
        checksFrozen == "State.Frozen" \in bodyText
        validatesSchema == ("pcall" \in bodyText) \/ ("type(" \in bodyText)
        strictness == IF checksFrom /\ validatesSchema THEN "strict"
                      ELSE IF checksFrom \/ validatesSchema THEN "moderate"
                      ELSE "loose"
    IN [type |-> "inline_function", strictness |-> strictness,
        checks_authorization |-> checksFrom, checks_frozen |-> checksFrozen]

analyzeInlineMatcher(r) ==
    LET bodyText == MatcherText(r)
        checksFrom == "msg.From" \in bodyText
        checksFrozen == "State.Frozen" \in bodyText
        validatesSchema == ("pcall" \in bodyText) \/ ("type(" \in bodyText)
        strictness == IF checksFrom /\ validatesSchema THEN "strict"
                      ELSE IF checksFrom \/ validatesSchema \/ checksFrozen THEN "moderate"
                      ELSE "loose"
        isAlwaysTrue == bodyText = {"true"}
    IN [type |-> IF isAlwaysTrue THEN "always_true" ELSE "inline_function",
        strictness |-> IF isAlwaysTrue THEN "loose" ELSE strictness,
        checks_authorization |-> checksFrom, checks_frozen |-> checksFrozen]

analyzeHasMatchingTag(r) ==
    [type |-> "hasMatchingTag", strictness |-> "loose",
     checks_authorization |-> FALSE, checks_frozen |-> FALSE]

\* the HandlerInfo of a Handlers.add call whose matcher analysis is a
HandlerInfoOf(r, a) ==
       [name |-> r.name, line |-> r.line, end_line |-> r.end_line,
        signature_type |-> IF r.matcherType = "function_call" THEN "hasMatchingTag"
                           ELSE "function_matcher",
        strictness |-> a.strictness,
        checks_authorization |-> a.checks_authorization,
        checks_frozen |-> a.checks_frozen,
        is_safe_library |-> FALSE,
        safe_options |-> [owner |-> FALSE, frozen |-> FALSE]]

parseHandlerAdd(r) ==
    HandlerInfoOf(r, IF r.matcherType = "function_call" THEN analyzeHasMatchingTag(r)
                     ELSE analyzeInlineMatcher(r))

\* variant: the options table of Safe.handler is not read
parseSafeHandlerDefaultsOnly(r) ==
    [name |-> r.name, line |-> r.line, end_line |-> r.end_line,
     signature_type |-> IF r.call = "Safe.handler" THEN "safe_handler" ELSE "safe_query",
     strictness |-> "strict",
     checks_authorization |-> r.call = "Safe.handler",
     checks_frozen |-> r.call = "Safe.handler",
     is_safe_library |-> TRUE,
     safe_options |-> [owner |-> r.call = "Safe.handler", frozen |-> r.call = "Safe.handler"]]

parseSafeHandler(r) ==
    LET isSafeHandler == r.call = "Safe.handler"
        owner == isSafeHandler /\ "owner=false" \notin r.options /\ "public=true" \notin r.options
        frozen == isSafeHandler /\ "frozen=false" \notin r.options /\ "public=true" \notin r.options
    IN [name |-> r.name, line |-> r.line, end_line |-> r.end_line,
        signature_type |-> IF isSafeHandler THEN "safe_handler" ELSE "safe_query",
        strictness |-> "strict",
        checks_authorization |-> owner,
        checks_frozen |-> frozen,
        is_safe_library |-> TRUE,
        safe_options |-> [owner |-> owner, frozen |-> frozen]]

findHandlers(regs) ==
    MapSeq(regs, LAMBDA r : IF r.call = "Handlers.add" THEN parseHandlerAdd(r)
                            ELSE parseSafeHandler(r))

----------------------------------------------------------------------------
(* StateAnalyzer: queries over a line range *)

InRange(n, startLine, endLine) == n.line >= startLine /\ n.line <= endLine

checkAuthPattern(nodes, startLine, endLine) ==
    LET hasAssertAuth == \E i \in 1..Len(nodes) :
            /\ InRange(nodes[i], startLine, endLine)
            /\ nodes[i].type = "function_call"
            /\ "assert" \in nodes[i].toks
            /\ ("msg.From" \in nodes[i].toks \/ "State.Owner" \in nodes[i].toks)
        hasConditionalAuth == \E i \in 1..Len(nodes) :
            /\ InRange(nodes[i], startLine, endLine)
            /\ nodes[i].type = "if_statement"
            /\ "msg.From" \in nodes[i].toks /\ "State.Owner" \in nodes[i].toks
    IN IF hasAssertAuth THEN [validates |-> TRUE, pattern |-> "assert"]
       ELSE IF hasConditionalAuth THEN [validates |-> TRUE, pattern |-> "conditional"]
       ELSE [validates |-> FALSE, pattern |-> "none"]

findStateAccessInRange(nodes, startLine, endLine) ==
    SelectSeq(nodes, LAMBDA n : InRange(n, startLine, endLine) /\ n.writes)

\* a node of the tree of one statement: parent is the place of the parent node in the
\* statement (0: the chunk), role the field of the parent the node fills, text a path
Node(t, x, p, r) == [type |-> t, text |-> x, parent |-> p, role |-> r]

\* /^State\.([A-Za-z_][A-Za-z0-9_]*(?:\.[A-Za-z_][A-Za-z0-9_]*)*)/ on the text of a node
parseStateAccess(node) == Len(node.text) >= 2 /\ node.text[1] = "State"

\* the first child of node a that has the type t, 0 if there is none
findChild(stmt, a, t) ==
    LET kids == {c \in 1..Len(stmt) : stmt[c].parent = a /\ stmt[c].type = t}
    IN IF kids = {} THEN 0 ELSE CHOOSE c \in kids : \A d \in kids : c <= d

RECURSIVE isDescendant(_, _, _)
isDescendant(stmt, parent, child) ==
    IF child = 0 THEN FALSE
    ELSE IF child = parent THEN TRUE
    ELSE isDescendant(stmt, parent, stmt[child].parent)

\* the walk of isWriteContext from the node current upwards
RECURSIVE WriteContextFrom(_, _, _)
WriteContextFrom(stmt, current, node) ==
    IF current = 0 THEN FALSE
    ELSE IF stmt[current].type = "assignment_statement"
    THEN LET variableList == findChild(stmt, current, "variable_list")
         IN variableList # 0 /\ isDescendant(stmt, variableList, node)
    ELSE WriteContextFrom(stmt, stmt[current].parent, node)

isWriteContext(stmt, node) == WriteContextFrom(stmt, stmt[node].parent, node)

\* the accesses of one kind found in the statement of a line, in the order of the walk
LineAccesses(stmt, line, type) ==
    LET hits == SelectSeq([n \in 1..Len(stmt) |-> n],
                          LAMBDA n : /\ stmt[n].type = "dot_index_expression"
                                     /\ parseStateAccess(stmt[n])
                                     /\ isWriteContext(stmt, n) = (type = "write"))
    IN [k \in 1..Len(hits) |-> [field |-> stmt[hits[k]].text, line |-> line, type |-> type]]

RECURSIVE deduplicateAccess(_)
deduplicateAccess(accesses) ==
    IF accesses = <<>> THEN <<>>
    ELSE LET rest == deduplicateAccess(SubSeq(accesses, 1, Len(accesses) - 1))
             last == accesses[Len(accesses)]
         IN IF \E k \in 1..Len(rest) : rest[k] = last THEN rest ELSE Append(rest, last)

\* findStateAccessInRange on the tree of a program, one statement per line
StateAccessInRange(program, startLine, endLine) ==
    LET InLines(type) ==
            Flatten([k \in 1..Len(program) |->
                        IF k >= startLine /\ k <= endLine
                        THEN LineAccesses(program[k], k, type) ELSE <<>>])
    IN [reads |-> deduplicateAccess(InLines("read")),
        writes |-> deduplicateAccess(InLines("write"))]

\* substrings of interest in the raw lines startLine..endLine
extractLines(nodes, startLine, endLine) ==
    UnionAll(MapSeq(SelectSeq(nodes, LAMBDA n : InRange(n, startLine, endLine)),
                    LAMBDA n : n.toks))

----------------------------------------------------------------------------
(* ProcessContextBuilder *)

\* /[\/\\]lib[\/\\]/ : a directory segment "lib" with a separator on both sides
detectLibrary(path) == \E i \in 2..(Len(path) - 1) : path[i] = "lib"

\* the file names of Paths that start with test_, end with _test.lua or are test.lua
TestFileNames == {"process_test.lua", "test_process.lua", "test.lua"}

detectTestFile(path) ==
    \/ \E i \in 2..(Len(path) - 1) : path[i] = "test"
    \/ path[Len(path)] \in TestFileNames

buildHandlerContext(info, nodes) ==
    LET authResult == checkAuthPattern(nodes, info.line, info.end_line)
        writes == findStateAccessInRange(nodes, info.line, info.end_line)
        handlerSource == extractLines(nodes, info.line, info.end_line)
        matcherHasAuth == info.checks_authorization
        bodyHasAuth == authResult.validates
        authLocation ==
            IF info.is_safe_library
            THEN (IF info.safe_options.owner THEN "internal" ELSE "none")
            ELSE IF matcherHasAuth /\ bodyHasAuth THEN "both"
            ELSE IF matcherHasAuth THEN "matcher"
            ELSE IF bodyHasAuth THEN "body"
            ELSE "none"
        matcherHasFrozen == info.checks_frozen
        bodyHasFrozen == "State.Frozen" \in handlerSource
        frozenLocation ==
            IF info.is_safe_library
            THEN (IF info.safe_options.frozen THEN "internal" ELSE "none")
            ELSE IF matcherHasFrozen /\ bodyHasFrozen THEN "both"
            ELSE IF matcherHasFrozen THEN "matcher"
            ELSE IF bodyHasFrozen THEN "body"
            ELSE "none"
    IN [name |-> info.name, startLine |-> info.line, endLine |-> info.end_line,
        signature_type |-> info.signature_type, strictness |-> info.strictness,
        authLocation |-> authLocation,
        authPattern |-> IF info.is_safe_library
                        THEN (IF info.safe_options.owner THEN "safe_library" ELSE "none")
                        ELSE authResult.pattern,
        frozenLocation |-> frozenLocation,
        isSafeLibrary |-> info.is_safe_library,
        mutatesState |-> Len(writes) > 0,
        sendsResponse |-> "msg.reply" \in handlerSource]

\* Map.set(name, ctx): a new key is appended, an existing key keeps its
\* position and gets the new value
MapSet(m, ctx) ==
    IF \E i \in 1..Len(m) : m[i].name = ctx.name
    THEN [i \in 1..Len(m) |-> IF m[i].name = ctx.name THEN ctx ELSE m[i]]
    ELSE Append(m, ctx)

RECURSIVE BuildHandlers(_, _, _)
BuildHandlers(infos, nodes, m) ==
    IF infos = <<>> THEN m
    ELSE BuildHandlers(Tail(infos), nodes, MapSet(m, buildHandlerContext(Head(infos), nodes)))

\* a line of the source holds the text tok
LineHas(line, tok) == \E k \in 1..Len(line) : line[k] = tok

\* texts of the lines that initialise the state table
SafeInit == "Safe.initState("
StateEq == "State ="
OwnerEnv == "Owner = ao.env.Process.Owner"
OwnerNil == "Owner = nil"
FrozenFalse == "Frozen = false"
FrozenTrue == "Frozen = true"
DataTable == "Data = {"
CondInit == "if not State.Owner then State.Owner = ao.env.Process.Owner"
OwnerOrEnv == "State.Owner = State.Owner or ao.env.Process.Owner"
AssertOwnerNotNil == "assert(State.Owner ~= nil"

FieldInfo(init, v, ln) == [initialized |-> init, value |-> v, line |-> ln]

\* fields.set(name, info)
FieldSet(fields, name, info) ==
    [n \in DOMAIN fields \cup {name} |-> IF n = name THEN info ELSE fields[n]]

\* /Frozen\s*=\s*(true|false)/ on a line: the state after the branch of a match
frozenMatch(s, line, lineNumber) ==
    IF LineHas(line, FrozenFalse) \/ LineHas(line, FrozenTrue)
    THEN LET v == IF LineHas(line, FrozenFalse) THEN "false" ELSE "true"
         IN [s EXCEPT !.frozenInitialized = TRUE, !.frozenValue = v,
                      !.fields = FieldSet(@, "Frozen", FieldInfo(TRUE, v, lineNumber))]
    ELSE s

\* the branch of an ownerValueMatch
ownerValueMatch(s, lineNumber) ==
    [s EXCEPT !.ownerInitialized = TRUE, !.ownerSource = "ao.env.Process.Owner",
              !.fields = FieldSet(@, "Owner", FieldInfo(TRUE, "ao.env.Process.Owner", lineNumber))]

\* the branch of an ownerNilMatch: lines.slice(i, i + 5) searched for the conditional (i 0-based)
ownerNilMatch(s, lines, i) ==
    IF \E k \in Slice(lines, i, i + 5) : LineHas(lines[k], CondInit)
    THEN [s EXCEPT !.ownerInitialized = TRUE, !.ownerSource = "conditional",
                   !.fields = FieldSet(@, "Owner", FieldInfo(TRUE, "conditional", i + 1))]
    ELSE [s EXCEPT !.fields = FieldSet(@, "Owner", FieldInfo(FALSE, "null", i + 1))]

\* the branch of a line that starts the State table
StateInitLine(s, lines, i) ==
    LET line == lines[i + 1]
        f == frozenMatch(s, line, i + 1)
        o == IF LineHas(line, OwnerEnv) THEN ownerValueMatch(f, i + 1)
             ELSE IF LineHas(line, OwnerNil) THEN ownerNilMatch(f, lines, i)
             ELSE f
    IN IF LineHas(line, DataTable)
       THEN [o EXCEPT !.fields = FieldSet(@, "Data", FieldInfo(TRUE, "{}", i + 1))]
       ELSE o

\* /^\s*(Frozen|Owner|Data)\s*=/ on a line
IsContinuation(line) ==
    Len(line) > 0 /\ line[1] \in {OwnerEnv, OwnerNil, FrozenFalse, FrozenTrue, DataTable}

\* the branch of a line that continues the State table
ContinuationLine(s, line, lineNumber) ==
    LET f == frozenMatch(s, line, lineNumber)
    IN IF LineHas(line, OwnerEnv) THEN ownerValueMatch(f, lineNumber) ELSE f

\* lines.slice(i, i + 5) holds an assert that the owner is not nil (i 0-based)
StateHasAssert(lines, i) ==
    \E k \in Slice(lines, i, i + 5) : LineHas(lines[k], AssertOwnerNotNil)

\* the branch of State.Owner = State.Owner or ao.env.Process.Owner
OrWithAssertLine(s, lines, i) ==
    IF StateHasAssert(lines, i)
    THEN [s EXCEPT !.ownerInitialized = TRUE, !.ownerSource = "or_with_assert",
                   !.fields = FieldSet(@, "Owner", FieldInfo(TRUE, "or_with_assert", i + 1))]
    ELSE s

\* one turn of the loop over the lines (i 0-based)
StateLine(s, lines, i) ==
    LET line == lines[i + 1]
        a == IF Len(line) > 0 /\ line[1] = StateEq THEN StateInitLine(s, lines, i) ELSE s
        b == IF i > 0 /\ IsContinuation(line) THEN ContinuationLine(a, line, i + 1) ELSE a
    IN IF LineHas(line, OwnerOrEnv) THEN OrWithAssertLine(b, lines, i) ELSE b

\* the Safe.initState( branch: owner and stop flag at the defaults of the library
SafeInitState(lines) ==
    LET hits == {k \in 1..Len(lines) : LineHas(lines[k], SafeInit)}
        first == CHOOSE k \in hits : \A j \in hits : k <= j
    IN IF hits = {}
       THEN [fields |-> <<>>, frozenInitialized |-> FALSE, frozenValue |-> "null",
             ownerInitialized |-> FALSE, ownerSource |-> "null"]
       ELSE [fields |-> FieldSet(FieldSet(<<>>, "Owner", FieldInfo(TRUE, "Safe.initState", first)),
                                 "Frozen", FieldInfo(TRUE, "false", first)),
             frozenInitialized |-> TRUE, frozenValue |-> "false",
             ownerInitialized |-> TRUE, ownerSource |-> "Safe.initState"]

RECURSIVE StateLoop(_, _)
StateLoop(lines, n) ==
    IF n = 0 THEN SafeInitState(lines)
    ELSE StateLine(StateLoop(lines, n - 1), lines, n - 1)

analyzeStateInit(lines) == StateLoop(lines, Len(lines))

\* the ProcessContext of a file whose handler map is handlers
ProcessContextOf(file, handlers) ==
       [filePath |-> file.path,
        isLibrary |-> detectLibrary(file.path),
        isTestFile |-> detectTestFile(file.path),
        handlers |-> handlers,
        sourceLines |-> file.lines,
        state |-> analyzeStateInit(file.lines),
        usesAuth |-> \E i \in 1..Len(handlers) : handlers[i].authLocation # "none",
        usesFrozen |-> \E i \in 1..Len(handlers) : handlers[i].frozenLocation # "none",
        handlerCount |-> Len(handlers)]

build(file) ==
    ProcessContextOf(file, BuildHandlers(findHandlers(file.regs), TreeNodes(file.regs), <<>>))

----------------------------------------------------------------------------
(* Checks of the registry, in registry order: the per-handler checks of the *)
(* auth, frozen and response categories. The other checks of the registry   *)
(* report under codes of their own and read nothing these checks write.     *)

Finding(c, sev, ln, msg) == [code |-> c, severity |-> sev, line |-> ln, message |-> msg]

HandlerFindings(ctx, c, sev, P(_)) ==
    MapSeq(SelectSeq(ctx.handlers, P), LAMBDA h : Finding(c, sev, h.startLine, h.name))

\* variant: handlers registered through the Safe library are skipped
NO_AUTH_CHECK_SkipsSafe(ctx) ==
    HandlerFindings(ctx, "NO_AUTH_CHECK", "critical",
                    LAMBDA h : h.mutatesState /\ h.authLocation = "none" /\ ~h.isSafeLibrary)

NO_AUTH_CHECK(ctx) ==
    HandlerFindings(ctx, "NO_AUTH_CHECK", "critical",
                    LAMBDA h : h.mutatesState /\ h.authLocation = "none")

\* variant: the authorization location is not looked at
HASMATCHING_TAG_AnyBody(ctx) ==
    HandlerFindings(ctx, "HASMATCHING_TAG_NO_HANDLER_AUTH", "critical",
                    LAMBDA h : h.signature_type = "hasMatchingTag" /\ h.mutatesState)

HASMATCHING_TAG_NO_HANDLER_AUTH(ctx) ==
    HandlerFindings(ctx, "HASMATCHING_TAG_NO_HANDLER_AUTH", "critical",
                    LAMBDA h : /\ h.signature_type = "hasMatchingTag"
                               /\ h.authLocation = "none"
                               /\ h.mutatesState)

LOOSE_MATCHER_WITH_BODY_AUTH(ctx) ==
    HandlerFindings(ctx, "LOOSE_MATCHER_WITH_BODY_AUTH", "low",
                    LAMBDA h : h.strictness = "loose" /\ h.authLocation = "body")

MISSING_BELT_AND_SUSPENDERS(ctx) ==
    HandlerFindings(ctx, "MISSING_BELT_AND_SUSPENDERS", "medium",
                    LAMBDA h : h.authLocation = "matcher" /\ h.mutatesState)

\* /^Update/i ... among Names; /^Get/i ... among Names
\* the line texts the owner checks look for
OwnerOrSender == "State.Owner = State.Owner or msg.From"
OwnerOrDefault == "State.Owner = State.Owner or Default"

\* /Owner\s*=\s*[^,}]*\s+or\s+/ on a line that does not hold ao.env.Process.Owner
OwnerOrPattern(line) == LineHas(line, OwnerOrSender) \/ LineHas(line, OwnerOrDefault)

LineFindings(ctx, c, sev, msg, hits) ==
    [k \in 1..Len(hits) |-> Finding(c, sev, hits[k], msg)]

\* the 1-based numbers of the lines of ctx.sourceCode that satisfy a test, in order
OwnerOrLines(ctx) ==
    SelectSeq([i \in 1..Len(ctx.sourceLines) |-> i],
              LAMBDA i : OwnerOrPattern(ctx.sourceLines[i]))

\* lines.slice(i, i + 6) holds an assert that the owner is not nil (i 0-based)
HasAssertAfter(lines, i) ==
    \E k \in Slice(lines, i, i + 6) : LineHas(lines[k], AssertOwnerNotNil)

\* variant: the lines after the assignment are not searched for an assert
UNSAFE_OWNER_OR_NoLookahead(ctx) ==
    LineFindings(ctx, "UNSAFE_OWNER_OR_PATTERN", "critical", "unsafe owner or", OwnerOrLines(ctx))

UNSAFE_OWNER_OR_PATTERN(ctx) ==
    LineFindings(ctx, "UNSAFE_OWNER_OR_PATTERN", "critical", "unsafe owner or",
                 SelectSeq(OwnerOrLines(ctx),
                           LAMBDA i : ~HasAssertAfter(ctx.sourceLines, i - 1)))

FIRST_CALLER_WINS_OWNER(ctx) ==
    LineFindings(ctx, "FIRST_CALLER_WINS_OWNER", "critical", "first caller wins",
                 SelectSeq([i \in 1..Len(ctx.sourceLines) |-> i],
                           LAMBDA i : LineHas(ctx.sourceLines[i], OwnerOrSender)))

MutatingNames == {"Update"}
ReadOnlyNames == {"Get"}

NO_FROZEN_CHECK(ctx) ==
    HandlerFindings(ctx, "NO_FROZEN_CHECK", "high",
                    LAMBDA h : /\ (h.name \in MutatingNames \/ h.mutatesState)
                               /\ ~(h.name \in ReadOnlyNames /\ ~h.mutatesState)
                               /\ h.frozenLocation = "none")

MUTATING_HANDLER_NO_RESPONSE(ctx) ==
    HandlerFindings(ctx, "MUTATING_HANDLER_NO_RESPONSE", "low",
                    LAMBDA h : h.mutatesState /\ ~h.sendsResponse)

\* lines of a module that keeps a counter in a file-scope local
LocalCounter == "local counter ="
AssignCounter == "counter ="

\* /^\s*local\s+([a-zA-Z_][a-zA-Z0-9_]*)\s*=/: the name declared on a line, "" if none
localMatch(line) == IF Len(line) > 0 /\ line[1] = LocalCounter THEN "counter" ELSE ""

\* (?<!local\s)\bname\s*=(?!=) on a line
assignPattern(varName, line) == varName = "counter" /\ LineHas(line, AssignCounter)

\* step 1 of MODULE_LEVEL_MUTABLE_STATE on line i (1-based): the scanner after the line
ScanLine(s, line, i) ==
    LET started == IF LineHas(line, "Handlers.add(")
                   THEN [s EXCEPT !.handlerStart = i, !.inHandler = TRUE, !.handlerDepth = 0]
                   ELSE s
        opened == IF LineHas(line, "function(")
                  THEN [started EXCEPT !.handlerDepth = @ + 1] ELSE started
        ended == IF LineHas(line, "end")
                 THEN [opened EXCEPT !.handlerDepth = @ - 1] ELSE opened
        varName == localMatch(line)
    IN IF started.inHandler
       THEN IF line = <<")">> /\ ended.handlerDepth <= 0
            THEN [ended EXCEPT !.handlerRanges = Append(@, [start |-> ended.handlerStart, end |-> i]),
                               !.inHandler = FALSE, !.handlerDepth = 0]
            ELSE ended
       ELSE IF varName # "" /\ varName # "json" /\ ~LineHas(line, "require(")
                 /\ ~(\E k \in 1..Len(s.moduleLocals) : s.moduleLocals[k] = varName)
            THEN [s EXCEPT !.moduleLocals = Append(@, varName)]
            ELSE s

RECURSIVE ScanLines(_, _)
ScanLines(lines, n) ==
    IF n = 0 THEN [moduleLocals |-> <<>>, handlerRanges |-> <<>>,
                   handlerStart |-> 0, handlerDepth |-> 0, inHandler |-> FALSE]
    ELSE ScanLine(ScanLines(lines, n - 1), lines[n], n)

\* the inner loop over moduleLocals on one line: the first variable assigned there, "" if none
FirstAssigned(moduleLocals, line) ==
    LET hits == SelectSeq(moduleLocals, LAMBDA v : assignPattern(v, line))
    IN IF hits = <<>> THEN "" ELSE hits[1]

\* moduleLocals.delete(varName)
DeleteLocal(moduleLocals, varName) == SelectSeq(moduleLocals, LAMBDA v : v # varName)

\* step 2 on the lines i..last of one range: the lines reported and the locals left
RECURSIVE RangeLoop(_, _, _, _)
RangeLoop(lines, i, last, acc) ==
    IF i > last THEN acc
    ELSE LET varName == FirstAssigned(acc.moduleLocals, lines[i])
         IN RangeLoop(lines, i + 1, last,
                      IF varName = "" THEN acc
                      ELSE [hits |-> Append(acc.hits, i),
                            moduleLocals |-> DeleteLocal(acc.moduleLocals, varName)])

RECURSIVE RangesLoop(_, _, _)
RangesLoop(lines, ranges, acc) ==
    IF ranges = <<>> THEN acc
    ELSE RangesLoop(lines, Tail(ranges),
                    RangeLoop(lines, Head(ranges).start, Head(ranges).end, acc))

MODULE_LEVEL_MUTABLE_STATE(ctx) ==
    LET s == ScanLines(ctx.sourceLines, Len(ctx.sourceLines))
    IN IF s.moduleLocals = <<>> \/ s.handlerRanges = <<>> THEN <<>>
       ELSE LineFindings(ctx, "MODULE_LEVEL_MUTABLE_STATE", "high", "module local mutated",
                         RangesLoop(ctx.sourceLines, s.handlerRanges,
                                    [hits |-> <<>>, moduleLocals |-> s.moduleLocals]).hits)

Checks == << [id |-> "NO_AUTH_CHECK", appliesToLibrary |-> FALSE, appliesToTestFile |-> FALSE],
             [id |-> "HASMATCHING_TAG_NO_HANDLER_AUTH", appliesToLibrary |-> FALSE, appliesToTestFile |-> FALSE],
             [id |-> "LOOSE_MATCHER_WITH_BODY_AUTH", appliesToLibrary |-> FALSE, appliesToTestFile |-> TRUE],
             [id |-> "MISSING_BELT_AND_SUSPENDERS", appliesToLibrary |-> FALSE, appliesToTestFile |-> FALSE],
             [id |-> "UNSAFE_OWNER_OR_PATTERN", appliesToLibrary |-> FALSE, appliesToTestFile |-> FALSE],
             [id |-> "FIRST_CALLER_WINS_OWNER", appliesToLibrary |-> FALSE, appliesToTestFile |-> FALSE],
             [id |-> "NO_FROZEN_CHECK", appliesToLibrary |-> FALSE, appliesToTestFile |-> FALSE],
             [id |-> "MODULE_LEVEL_MUTABLE_STATE", appliesToLibrary |-> FALSE, appliesToTestFile |-> TRUE],
             [id |-> "MUTATING_HANDLER_NO_RESPONSE", appliesToLibrary |-> FALSE, appliesToTestFile |-> TRUE] >>

CheckIds == {Checks[i].id : i \in 1..Len(Checks)}

run(check, ctx) ==
    CASE check.id = "NO_AUTH_CHECK" -> NO_AUTH_CHECK(ctx)
      [] check.id = "HASMATCHING_TAG_NO_HANDLER_AUTH" -> HASMATCHING_TAG_NO_HANDLER_AUTH(ctx)
      [] check.id = "LOOSE_MATCHER_WITH_BODY_AUTH" -> LOOSE_MATCHER_WITH_BODY_AUTH(ctx)
      [] check.id = "MISSING_BELT_AND_SUSPENDERS" -> MISSING_BELT_AND_SUSPENDERS(ctx)
      [] check.id = "UNSAFE_OWNER_OR_PATTERN" -> UNSAFE_OWNER_OR_PATTERN(ctx)
      [] check.id = "FIRST_CALLER_WINS_OWNER" -> FIRST_CALLER_WINS_OWNER(ctx)
      [] check.id = "NO_FROZEN_CHECK" -> NO_FROZEN_CHECK(ctx)
      [] check.id = "MODULE_LEVEL_MUTABLE_STATE" -> MODULE_LEVEL_MUTABLE_STATE(ctx)
      [] check.id = "MUTATING_HANDLER_NO_RESPONSE" -> MUTATING_HANDLER_NO_RESPONSE(ctx)

Eligible(check, ctx) ==
    /\ ~(ctx.isLibrary /\ ~check.appliesToLibrary)
    /\ ~(ctx.isTestFile /\ check.appliesToTestFile = FALSE)

----------------------------------------------------------------------------
(* SecurityAnalyzer *)

severityOrder == [critical |-> 0, high |-> 1, medium |-> 2, low |-> 3, info |-> 4]

\* comparator of the sort in deduplicate
Compare(a, b) ==
    LET severityDiff == severityOrder[a.severity] - severityOrder[b.severity]
    IN IF severityDiff # 0 THEN severityDiff ELSE a.line - b.line

\* Array.prototype.sort is stable: x goes after every element it does not precede
RECURSIVE InsertSorted(_, _)
InsertSorted(x, s) ==
    IF s = <<>> THEN <<x>>
    ELSE IF Compare(x, Head(s)) < 0 THEN <<x>> \o s
    ELSE <<Head(s)>> \o InsertSorted(x, Tail(s))

RECURSIVE SortFindings(_, _)
SortFindings(s, acc) ==
    IF s = <<>> THEN acc ELSE SortFindings(Tail(s), InsertSorted(Head(s), acc))

RECURSIVE KeepFirst(_, _)
KeepFirst(s, seen) ==
    IF s = <<>> THEN seen
    ELSE IF \E i \in 1..Len(seen) : seen[i].code = Head(s).code /\ seen[i].line = Head(s).line
         THEN KeepFirst(Tail(s), seen)
         ELSE KeepFirst(Tail(s), Append(seen, Head(s)))

deduplicate(findings) == SortFindings(KeepFirst(findings, <<>>), <<>>)

\* variant: the try/catch encloses the loop, the first throw ends it
RECURSIVE RunChecksAbort(_, _, _, _)
RunChecksAbort(i, ctx, T, findings) ==
    IF i > Len(Checks) THEN findings
    ELSE IF ~Eligible(Checks[i], ctx) THEN RunChecksAbort(i + 1, ctx, T, findings)
    ELSE IF Checks[i].id \in T THEN findings
    ELSE RunChecksAbort(i + 1, ctx, T, findings \o run(Checks[i], ctx))

\* the loop over registry.getChecks(): T is the set of checks whose
\* evaluator throws; a throw is caught and the loop goes on
RECURSIVE RunChecks(_, _, _, _)
RunChecks(i, ctx, T, findings) ==
    IF i > Len(Checks) THEN findings
    ELSE IF ~Eligible(Checks[i], ctx) THEN RunChecks(i + 1, ctx, T, findings)
    ELSE IF Checks[i].id \in T THEN RunChecks(i + 1, ctx, T, findings)
    ELSE RunChecks(i + 1, ctx, T, findings \o run(Checks[i], ctx))

\* the result for a built context: the findings as pushed, and as returned
\* after deduplicate
RunRegistry(context, T) ==
    [raw |-> RunChecks(1, context, T, <<>>),
     findings |-> deduplicate(RunChecks(1, context, T, <<>>)),
     context |-> context]

analyzeWithContext(file, T) == RunRegistry(build(file), T)

----------------------------------------------------------------------------
(* RuleLoader (README.md) and the dynamic rules of SecurityAnalyzerAdapter *)

\* requires_context / requires_following: "" when absent; lines_to_check: 0 when absent
Rule(id, sev, type, pat, ctxPat, followPat, n, stack) ==
    [id |-> id, description |-> "rule", severity |-> sev, techStack |-> stack,
     detection |-> [type |-> type, pattern |-> pat, requires_context |-> ctxPat,
                    requires_following |-> followPat, lines_to_check |-> n]]

\* an entry of anti_patterns in a skill file: kind "string" is a plain string
\* entry; a structured entry has detection.type "none" when it has no detection
\* block, severity "" and pattern "" when the key is absent
Entry(kind, id, sev, type, pat) ==
    [kind |-> kind, id |-> id, severity |-> sev,
     detection |-> [type |-> type, pattern |-> pat]]

\* a skill file: parses is FALSE when reading or parsing the YAML throws
SkillFile(parses, skillId, stack, entries) ==
    [parses |-> parses, skill_id |-> skillId, tech_stack |-> stack,
     anti_patterns |-> entries]

\* the rule pushed for a structured entry; pattern stands for detection.pattern
\* of a regex entry and detection.body_matches of a handler_analysis entry
RuleOfEntry(skill, ap) ==
    Rule(ap.id, IF ap.severity = "" THEN "high" ELSE ap.severity,
         ap.detection.type, ap.detection.pattern, "", "", 0, skill.tech_stack)

\* for (const ap of skill.anti_patterns)
RECURSIVE EntryLoop(_, _, _)
EntryLoop(skill, aps, acc) ==
    IF aps = <<>> THEN acc
    ELSE IF Head(aps).kind = "string" THEN EntryLoop(skill, Tail(aps), acc)
    ELSE IF Head(aps).detection.type \in {"none", "prompt_only"}
         THEN EntryLoop(skill, Tail(aps), acc)
    ELSE EntryLoop(skill, Tail(aps), Append(acc, RuleOfEntry(skill, Head(aps))))

\* for (const skillFile of skillFiles): a file that throws is reported with
\* console.error and the loop goes on
RECURSIVE SkillLoop(_, _)
SkillLoop(files, acc) ==
    IF files = <<>> THEN acc
    ELSE IF ~Head(files).parses
         THEN SkillLoop(Tail(files),
                        [acc EXCEPT !.errors = Append(@, "Failed to load skill")])
    ELSE IF Head(files).skill_id = "" THEN SkillLoop(Tail(files), acc)
    ELSE SkillLoop(Tail(files),
                   [acc EXCEPT !.rules = EntryLoop(Head(files), Head(files).anti_patterns, @)])

\* RuleLoader.loadFromSkillsDirectory on an existing directory: the state of
\* the loader afterwards, and the lines written to console.error
loadFromSkillsDirectory(files) ==
    [loaded |-> TRUE,
     rules |-> SkillLoop(files, [rules |-> <<>>, errors |-> <<>>]).rules]

LoaderErrors(files) == SkillLoop(files, [rules |-> <<>>, errors |-> <<>>]).errors

getRuleCount(loader) == Len(loader.rules)

getRulesForTechStack(loader, techStack) ==
    SelectSeq(loader.rules, LAMBDA r : r.techStack \cap techStack # {})

\* new RegExp(p).test(text) without the g flag; a pattern is one character
TestPlain(p, text) == \E k \in 1..Len(text) : text[k] = p

\* index (0-based) of the first match at or after lastIndex, or -1
MatchFrom(p, text, lastIndex) ==
    IF \E k \in (lastIndex + 1)..Len(text) : text[k] = p
    THEN (CHOOSE k \in (lastIndex + 1)..Len(text) :
              text[k] = p /\ \A j \in (lastIndex + 1)..(k - 1) : text[j] # p) - 1
    ELSE -1

\* new RegExp(p) throws a SyntaxError for "(" ; every other pattern compiles
ValidPattern(p) == p # "("

\* new RegExp(p, "g").test(text): matches from lastIndex on and moves lastIndex
\* behind the match; a failed match resets lastIndex to 0.  The absent pattern
\* "" compiles to /(?:)/g, which matches the empty string at lastIndex, and
\* ".*" matches the rest of the line, the empty rest included
TestGlobal(p, text, lastIndex) ==
    IF p = "" THEN
        IF lastIndex <= Len(text) THEN [matched |-> TRUE, lastIndex |-> lastIndex]
        ELSE [matched |-> FALSE, lastIndex |-> 0]
    ELSE IF p = ".*" THEN
        IF lastIndex <= Len(text) THEN [matched |-> TRUE, lastIndex |-> Len(text)]
        ELSE [matched |-> FALSE, lastIndex |-> 0]
    ELSE LET at == MatchFrom(p, text, lastIndex)
         IN IF at >= 0 THEN [matched |-> TRUE, lastIndex |-> at + 1]
            ELSE [matched |-> FALSE, lastIndex |-> 0]

\* guard search of the regex branch for the line with 0-based index i
HasGuard(det, lines, i) ==
    LET linesToCheck == IF det.lines_to_check # 0 THEN det.lines_to_check ELSE 5
        byContext ==
            /\ det.requires_context # ""
            /\ \/ TestPlain(det.requires_context, lines[i + 1])
               \/ \E k \in Slice(lines, i - linesToCheck, i) :
                      TestPlain(det.requires_context, lines[k])
        byFollowing ==
            /\ det.requires_following # ""
            /\ \E k \in Slice(lines, i + 1, i + 1 + linesToCheck) :
                   TestPlain(det.requires_following, lines[k])
    IN byContext \/ (~byContext /\ byFollowing)

RuleFinding(rule, i) == Finding(rule.id, rule.severity, i + 1, rule.description)

\* for (let i = 0; i < lines.length; i++) of the regex branch
RECURSIVE RegexLoop(_, _, _, _, _)
RegexLoop(rule, lines, i, lastIndex, findings) ==
    IF i >= Len(lines) THEN findings
    ELSE LET det == rule.detection
             t == TestGlobal(det.pattern, lines[i + 1], lastIndex)
             guarded == det.requires_context # "" \/ det.requires_following # ""
             emit == t.matched /\ (IF guarded THEN ~HasGuard(det, lines, i) ELSE TRUE)
         IN RegexLoop(rule, lines, i + 1, t.lastIndex,
                      IF emit THEN Append(findings, RuleFinding(rule, i)) ELSE findings)

\* for (let i = 0; i < lines.length; i++) of the handler_analysis branch
RECURSIVE BodyMatchLoop(_, _, _, _, _)
BodyMatchLoop(rule, lines, i, lastIndex, findings) ==
    IF i >= Len(lines) THEN findings
    ELSE LET t == TestGlobal(rule.detection.pattern, lines[i + 1], lastIndex)
         IN BodyMatchLoop(rule, lines, i + 1, t.lastIndex,
                          IF t.matched THEN Append(findings, RuleFinding(rule, i)) ELSE findings)

applyRule(rule, lines) ==
    (IF rule.detection.type = "handler_analysis" /\ rule.detection.pattern # ""
     THEN BodyMatchLoop(rule, lines, 0, 0, <<>>) ELSE <<>>)
    \o (IF rule.detection.type = "regex"
        THEN RegexLoop(rule, lines, 0, 0, <<>>) ELSE <<>>)

\* applyRule throws: new RegExp(pattern, "g") is built before the loop over
\* the lines, outside any try block
applyRuleThrows(rule) ==
    \/ rule.detection.type = "handler_analysis" /\ rule.detection.pattern # ""
         /\ ~ValidPattern(rule.detection.pattern)
    \/ rule.detection.type = "regex" /\ ~ValidPattern(rule.detection.pattern)

\* analyze throws: applyDynamicRules calls applyRule for every rule of the
\* tech stack, and neither of them nor analyze catches
analyzeThrows(file, loader) ==
    /\ loader.loaded
    /\ ~detectLibrary(file.path)
    /\ \E i \in 1..Len(loader.rules) :
           /\ loader.rules[i].techStack \cap {"lua", "ao"} # {}
           /\ applyRuleThrows(loader.rules[i])

\* variant: the findings array is a field of the adapter and is never cleared
applyDynamicRulesAccumulating(loader, file) ==
    report.findings \o
    Flatten(MapSeq(getRulesForTechStack(loader, {"lua", "ao"}),
                   LAMBDA r : applyRule(r, file.lines)))

applyDynamicRules(loader, file) ==
    Flatten(MapSeq(getRulesForTechStack(loader, {"lua", "ao"}),
                   LAMBDA r : applyRule(r, file.lines)))

CountSeverity(findings, sev) == Count(findings, LAMBDA f : f.severity = sev)

createReport(path, findings) ==
    [file |-> path, findings |-> findings,
     summary |-> [critical |-> CountSeverity(findings, "critical"),
                  high |-> CountSeverity(findings, "high"),
                  medium |-> CountSeverity(findings, "medium"),
                  low |-> CountSeverity(findings, "low"),
                  info |-> CountSeverity(findings, "info"),
                  total |-> Len(findings)]]

\* SecurityAnalyzerAdapter.analyze
\* the part of analyze after analyzeWithContext has returned analysisResult
ReportOf(file, loader, analysisResult) ==
    createReport(file.path,
                 analysisResult.findings \o
                 (IF loader.loaded /\ ~analysisResult.context.isLibrary
                  THEN applyDynamicRules(loader, file) ELSE <<>>))

analyze(file, loader) == ReportOf(file, loader, analyzeWithContext(file, {}))

RECURSIVE SumOver(_, _)
SumOver(reports, sev) ==
    IF reports = <<>> THEN 0 ELSE Head(reports).summary[sev] + SumOver(Tail(reports), sev)

\* variant: only critical findings fail the audit
PassCriticalOnly(summary) == summary.critical = 0

\* Pass if no critical or high severity issues
Pass(summary) == summary.critical = 0 /\ summary.high = 0

\* SecurityAnalyzerAdapter.analyzeMultiple
\* the summary aggregated over the reports of the files
Aggregate(reports) ==
    [critical |-> SumOver(reports, "critical"),
     high |-> SumOver(reports, "high"),
     medium |-> SumOver(reports, "medium"),
     low |-> SumOver(reports, "low"),
     info |-> SumOver(reports, "info"),
     total |-> SumOver(reports, "total")]

AuditResultOf(reports, summary) ==
    [files |-> reports, summary |-> summary, pass |-> Pass(summary)]

analyzeMultiple(files, loader) ==
    AuditResultOf(MapSeq(files, LAMBDA f : analyze(f, loader)),
                  Aggregate(MapSeq(files, LAMBDA f : analyze(f, loader))))

----------------------------------------------------------------------------
(* LuaParser.parse and the audit command of the CLI *)

\* LuaParser.parse: a source whose tree has an error node gives the result of
\* createErrorResult, which has no sourceCode field
parse(src) ==
    IF src.syntaxError
    THEN [file |-> src.path, success |-> FALSE,
          error |-> [message |-> "Syntax error in Lua file"]]
    ELSE [file |-> src.path, success |-> TRUE,
          sourceCode |-> [regs |-> src.regs, lines |-> src.lines]]

\* const sourceCode = result.sourceCode || "": the empty text has no
\* statement, and "".split("\n") is one empty line
SourceOf(result) ==
    IF "sourceCode" \in DOMAIN result
    THEN [path |-> result.file, regs |-> result.sourceCode.regs,
          lines |-> result.sourceCode.lines]
    ELSE [path |-> result.file, regs |-> <<>>, lines |-> << <<>> >>]

\* the audit command: analyzeMultiple over the ParseResults of all files, the
\* failed ones included; an exception of analyze leaves the command (ok FALSE)
auditCommand(results, loader) ==
    IF \E i \in 1..Len(results) : analyzeThrows(SourceOf(results[i]), loader)
    THEN [ok |-> FALSE, result |-> analyzeMultiple(<<>>, loader)]
    ELSE [ok |-> TRUE,
          result |-> analyzeMultiple(MapSeq(results, SourceOf), loader)]

----------------------------------------------------------------------------
(* Diff engine: diffAuditResults *)

\* variant: the fuzzy key is built like the strict key
createFindingKeyWithLine(file, f) == <<file, f.code, f.severity, f.handler, f.line>>

\* `${file}|${code}|${severity}|${handler}`
createFindingKey(file, f) == <<file, f.code, f.severity, f.handler>>

\* `${file}|${code}|${severity}|${handler}|${line}`
createStrictFindingKey(file, f) == <<file, f.code, f.severity, f.handler, f.line>>

WithFile(file, f) ==
    [file |-> file, code |-> f.code, severity |-> f.severity, handler |-> f.handler,
     line |-> f.line]

extractFindings(audit) ==
    Flatten(MapSeq(audit.files,
                   LAMBDA r : MapSeq(r.findings, LAMBDA f : WithFile(r.file, f))))

StrictKeys(fs) == {createStrictFindingKey(fs[i].file, fs[i]) : i \in 1..Len(fs)}
FuzzyKeys(fs) == {createFindingKey(fs[i].file, fs[i]) : i \in 1..Len(fs)}

\* baselineFuzzy.get(key): the baseline findings of that key in baseline order
FuzzyGet(fs, key) == SelectSeq(fs, LAMBDA b : createFindingKey(b.file, b) = key)

\* baseMatches.find(b => !matchedBaseline.has(strictKey(b))): index of the first, 0 if none
FindUnmatched(baseMatches, matched) ==
    IF \E i \in 1..Len(baseMatches) :
           createStrictFindingKey(baseMatches[i].file, baseMatches[i]) \notin matched
    THEN CHOOSE i \in 1..Len(baseMatches) :
           /\ createStrictFindingKey(baseMatches[i].file, baseMatches[i]) \notin matched
           /\ \A j \in 1..(i - 1) :
                  createStrictFindingKey(baseMatches[j].file, baseMatches[j]) \in matched
    ELSE 0

\* variant: a relocation does not add the baseline finding to matchedBaseline
RECURSIVE CurrentLoopNoConsume(_, _, _)
CurrentLoopNoConsume(baselineFindings, currentFindings, acc) ==
    IF currentFindings = <<>> THEN acc
    ELSE LET f == Head(currentFindings)
             strictKey == createStrictFindingKey(f.file, f)
             fuzzyKey == createFindingKey(f.file, f)
             baseMatches == FuzzyGet(baselineFindings, fuzzyKey)
             u == FindUnmatched(baseMatches, acc.matched)
             next ==
                IF strictKey \in StrictKeys(baselineFindings)
                THEN [acc EXCEPT !.matched = @ \cup {strictKey}]
                ELSE IF fuzzyKey \in FuzzyKeys(baselineFindings) /\ u # 0
                THEN [acc EXCEPT !.moved = Append(@, [finding |-> f,
                                                      from_line |-> baseMatches[u].line,
                                                      to_line |-> f.line])]
                ELSE [acc EXCEPT !.new = Append(@, f)]
         IN CurrentLoopNoConsume(baselineFindings, Tail(currentFindings), next)

\* for (const f of currentFindings): acc = [matched, new, moved]
RECURSIVE CurrentLoop(_, _, _)
CurrentLoop(baselineFindings, currentFindings, acc) ==
    IF currentFindings = <<>> THEN acc
    ELSE LET f == Head(currentFindings)
             strictKey == createStrictFindingKey(f.file, f)
             fuzzyKey == createFindingKey(f.file, f)
             baseMatches == FuzzyGet(baselineFindings, fuzzyKey)
             u == FindUnmatched(baseMatches, acc.matched)
             next ==
                IF strictKey \in StrictKeys(baselineFindings)
                THEN [acc EXCEPT !.matched = @ \cup {strictKey}]
                ELSE IF fuzzyKey \in FuzzyKeys(baselineFindings)
                THEN IF u # 0
                     THEN [acc EXCEPT
                             !.matched = @ \cup {createStrictFindingKey(baseMatches[u].file,
                                                                       baseMatches[u])},
                             !.moved = IF baseMatches[u].line # f.line
                                       THEN Append(@, [finding |-> f,
                                                       from_line |-> baseMatches[u].line,
                                                       to_line |-> f.line])
                                       ELSE @]
                     ELSE [acc EXCEPT !.new = Append(@, f)]
                ELSE [acc EXCEPT !.new = Append(@, f)]
         IN CurrentLoop(baselineFindings, Tail(currentFindings), next)

\* for (const f of baselineFindings): the resolved findings
ResolvedLoop(baselineFindings, currentFindings, matched) ==
    SelectSeq(baselineFindings,
              LAMBDA f : /\ createStrictFindingKey(f.file, f) \notin matched
                         /\ createFindingKey(f.file, f) \notin FuzzyKeys(currentFindings))

\* variant: only new critical findings count as a regression
RegressionCriticalOnly(summary) == summary.new_critical > 0

RegressionDetected(summary) == summary.new_critical > 0 \/ summary.new_high > 0

DiffSummary(newFindings, resolvedFindings) ==
    [new_critical |-> CountSeverity(newFindings, "critical"),
     new_high |-> CountSeverity(newFindings, "high"),
     new_medium |-> CountSeverity(newFindings, "medium"),
     new_low |-> CountSeverity(newFindings, "low"),
     new_info |-> CountSeverity(newFindings, "info"),
     resolved_critical |-> CountSeverity(resolvedFindings, "critical"),
     resolved_high |-> CountSeverity(resolvedFindings, "high"),
     resolved_medium |-> CountSeverity(resolvedFindings, "medium"),
     resolved_low |-> CountSeverity(resolvedFindings, "low"),
     resolved_info |-> CountSeverity(resolvedFindings, "info")]

\* variant: the relocated findings are left out of the result
DiffResultOfNoMoved(baseline, current, acc, resolvedFindings, summary) ==
    [regression_detected |-> RegressionDetected(summary),
     new_findings |-> acc.new,
     resolved_findings |-> resolvedFindings,
     moved_findings |-> <<>>,
     summary |-> summary,
     baseline_passed |-> baseline.pass,
     current_passed |-> current.pass]

\* the DiffResult once both loops have run
DiffResultOf(baseline, current, acc, resolvedFindings, summary) ==
    [regression_detected |-> RegressionDetected(summary),
     new_findings |-> acc.new,
     resolved_findings |-> resolvedFindings,
     moved_findings |-> acc.moved,
     summary |-> summary,
     baseline_passed |-> baseline.pass,
     current_passed |-> current.pass]

\* the two loops over the extracted findings
DiffLoops(baseline, current, baselineFindings, currentFindings, acc) ==
    DiffResultOf(baseline, current, acc,
                 ResolvedLoop(baselineFindings, currentFindings, acc.matched),
                 DiffSummary(acc.new,
                             ResolvedLoop(baselineFindings, currentFindings, acc.matched)))

diffAuditResults(baseline, current) ==
    DiffLoops(baseline, current, extractFindings(baseline), extractFindings(current),
              CurrentLoop(extractFindings(baseline), extractFindings(current),
                          [matched |-> {}, new |-> <<>>, moved |-> <<>>]))

----------------------------------------------------------------------------
(* Inputs *)

BlankLines == [i \in LineNos |-> <<".">>]

\* the registration calls of a file in document order
InDocumentOrder(regs) == \A i \in 1..(Len(regs) - 1) : regs[i].line <= regs[i + 1].line
RegLists(n) == {regs \in SeqsUpTo(Registrations, n) : InDocumentOrder(regs)}

\* files handed to analyzeWithContext directly
Files == [path : Paths, regs : RegLists(MaxHandlers), lines : {BlankLines}]

\* files handed to adapter.analyze
ReportRegs == { <<>>, <<HandlersAdd("Update", 1, "hasMatchingTag", "write")>>,
                <<HandlersAdd("Update", 1, "fn_return_from", "write")>>,
                <<HandlersAdd("Update", 2, "fn_if_from", "assert_write")>>,
                <<HandlersAdd("Get", 1, "hasMatchingTag", "reply")>>,
                <<SafeHandler("Update", 2, {"owner=false"}, "write")>> }
ReportFiles == [path : { <<"src", "process.lua">>, <<"src", "lib", "safe.lua">> },
                regs : ReportRegs, lines : [LineNos -> LineTexts]]

\* files of a batch
BatchRegs == { <<>>, <<HandlersAdd("Update", 1, "hasMatchingTag", "write")>>,
               <<HandlersAdd("Update", 1, "fn_return_from", "write")>>,
               <<SafeHandler("Update", 1, {}, "write")>> }
FirstLineMatches == [i \in LineNos |-> IF i = 1 THEN <<"x">> ELSE <<".">>]
BatchFiles == [path : { <<"src", "process.lua">>, <<"src", "lib", "safe.lua">> },
               regs : BatchRegs, lines : {BlankLines, FirstLineMatches}]

\* the sources of an audit command
AuditContents == { [regs |-> <<>>, lines |-> BlankLines],
                   [regs |-> <<HandlersAdd("Update", 1, "hasMatchingTag", "write")>>,
                    lines |-> FirstLineMatches] }
AuditSources ==
    {[path |-> <<"src", "process.lua">>, regs |-> c.regs, lines |-> c.lines,
      syntaxError |-> e] : c \in AuditContents, e \in BOOLEAN}
    \cup {[path |-> <<"src", "lib", "safe.lua">>, regs |-> c.regs, lines |-> c.lines,
           syntaxError |-> FALSE] : c \in AuditContents}

\* the anti_patterns entries of a skill file
SkillEntries ==
    { Entry("string", "", "", "none", ""),
      Entry("structured", "R1", "critical", "regex", "x"),
      Entry("structured", "R2", "critical", "regex", "("),
      Entry("structured", "R3", "low", "regex", ".*"),
      Entry("structured", "R4", "", "regex", ""),
      Entry("structured", "R5", "critical", "ast", "x"),
      Entry("structured", "R6", "high", "prompt_only", "") }
BrokenSkillFile == SkillFile(FALSE, "", {}, <<>>)
SkillDirs ==
    UNION {{ <<SkillFile(TRUE, "ao", {"lua"}, es)>>,
             <<BrokenSkillFile, SkillFile(TRUE, "ao", {"lua"}, es)>> } :
           es \in SeqsUpTo(SkillEntries, MaxEntries)}

LoaderRules ==
    {Rule(id, sev, "regex", "x", "", "", 0, {"lua"}) :
         id \in {"R1", "NO_AUTH_CHECK"}, sev \in {"critical", "low"}}
    \cup {Rule("R1", "critical", "handler_analysis", "x", "", "", 0, {"ao"}),
          Rule("R2", "high", "regex", "x", "", "", 0, {"erlang"})}

\* the rules of a batch audit
BatchRules == {Rule("R1", sev, "regex", "x", "", "", 0, {"lua"}) : sev \in {"critical", "low"}}

\* the loader after loadFromSkillsDirectory, or the state without rule loader
LoadersOf(rs, n) == {[loaded |-> TRUE, rules |-> r] : r \in SeqsUpTo(rs, n)}
                    \cup {[loaded |-> FALSE, rules |-> <<>>]}
Loaders(n) == LoadersOf(LoaderRules, n)

\* findings of the audit reports handed to the diff
DiffKinds == { <<"A", "critical">>, <<"A", "low">>, <<"B", "high">>, <<"B", "low">> }
DiffLines == {1, 4}
DiffFindings == {[code |-> k[1], severity |-> k[2], handler |-> "", line |-> ln] :
                     k \in DiffKinds, ln \in DiffLines}

\* an audit result as written by the audit command, for one file
AuditOf(fs) ==
    [files |-> <<[file |-> "process.lua", findings |-> fs]>>,
     pass |-> CountSeverity(fs, "critical") = 0 /\ CountSeverity(fs, "high") = 0]

NoDiff == diffAuditResults(AuditOf(<<>>), AuditOf(<<>>))
NoDiffIn == [baseline |-> AuditOf(<<>>), current |-> AuditOf(<<>>)]

NoFile == [path |-> <<"">>, regs |-> <<>>, lines |-> <<>>]
NoAnalysis == [raw |-> <<>>, findings |-> <<>>, context |-> build(NoFile)]
NoReport == createReport(<<"">>, <<>>)
NoLoader == [loaded |-> FALSE, rules |-> <<>>]

Init ==
    /\ pc = "idle"
    /\ input = NoFile
    /\ rules = NoLoader
    /\ thrown = {}
    /\ analysis = NoAnalysis
    /\ report = NoReport
    /\ prevReport = NoReport
    /\ batch = analyzeMultiple(<<>>, NoLoader)
    /\ diffIn = NoDiffIn
    /\ diff = NoDiff
    /\ skills = <<>>
    /\ parsed = <<>>

\* SecurityAnalyzer.analyzeWithContext(sourceCode, filePath); T: the checks
\* whose evaluator throws on this file
AnalyzeWithContext(file, T) ==
    /\ pc' = "analyzed"
    /\ input' = file
    /\ analysis' = analyzeWithContext(file, T)
    /\ thrown' = {c \in T : \E i \in 1..Len(Checks) :
                      Checks[i].id = c /\ Eligible(Checks[i], analysis'.context)}
    /\ UNCHANGED <<rules, report, prevReport, batch, diffIn, diff, skills, parsed>>

\* SecurityAnalyzerAdapter.analyze(result) with the rule loader of the adapter
Analyze(file, loader) ==
    /\ pc' = "reported"
    /\ input' = file
    /\ rules' = loader
    /\ thrown' = {}
    /\ analysis' = analyzeWithContext(file, {})
    /\ report' = analyze(file, loader)
    /\ UNCHANGED <<prevReport, batch, diffIn, diff, skills, parsed>>

\* the same adapter analyzes the same file once more
Rerun ==
    /\ pc = "reported"
    /\ pc' = "rerun"
    /\ prevReport' = report
    /\ analysis' = analyzeWithContext(input, {})
    /\ report' = analyze(input, rules)
    /\ UNCHANGED <<input, rules, thrown, batch, diffIn, diff, skills, parsed>>

\* SecurityAnalyzerAdapter.analyzeMultiple(results)
AnalyzeMultiple(files, loader) ==
    /\ pc' = "batch"
    /\ rules' = loader
    /\ batch' = analyzeMultiple(files, loader)
    /\ UNCHANGED <<input, thrown, analysis, report, prevReport, diffIn, diff, skills, parsed>>

\* diffAuditResults(baseline, current)
Diff(baseline, current) ==
    /\ pc' = "diffed"
    /\ diffIn' = [baseline |-> baseline, current |-> current]
    /\ diff' = diffAuditResults(baseline, current)
    /\ UNCHANGED <<input, rules, thrown, analysis, report, prevReport, batch, skills, parsed>>

Next ==
    \/ pc = "idle" /\ \E f \in Files : AnalyzeWithContext(f, {})
    \/ pc = "idle" /\ \E f \in ReportFiles, l \in Loaders(MaxRules) : Analyze(f, l)
    \/ Rerun
    \/ pc = "idle" /\ \E fs \in SeqsUpTo(BatchFiles, MaxBatchFiles), l \in LoadersOf(BatchRules, MaxBatchRules) :
           AnalyzeMultiple(fs, l)

Spec == Init /\ [][Next]_vars

\* the check registry loop when the evaluators of some checks throw
ThrowSets == {T \in SUBSET CheckIds : Cardinality(T) <= MaxThrowing}
\* files with one registration call per line
OnePerLine(regs) == \A i \in 1..Len(regs) : regs[i].line = i

\* the sequences of up to n calls out of R that satisfy OnePerLine
RECURSIVE OnePerLineSeqs(_, _)
OnePerLineSeqs(R, n) ==
    IF n = 0 THEN {<<>>}
    ELSE LET shorter == OnePerLineSeqs(R, n - 1)
         IN shorter \cup {Append(s, r) : s \in {t \in shorter : Len(t) = n - 1},
                                         r \in {x \in R : x.line = n}}
FaultFiles == [path : { <<"src", "process.lua">>, <<"src", "process_test.lua">> },
               regs : OnePerLineSeqs(Registrations, MaxFaultHandlers),
               lines : {BlankLines}]

NextFault ==
    pc = "idle" /\ \E f \in FaultFiles, T \in ThrowSets : AnalyzeWithContext(f, T)

SpecFault == Init /\ [][NextFault]_vars

\* sources without handlers whose lines assign the owner or assert it
OwnerLineTexts == { <<OwnerOrSender>>, <<OwnerOrDefault>>, <<AssertOwnerNotNil>>, <<".">> }
OwnerFiles == [path : { <<"src", "process.lua">>, <<"src", "process_test.lua">> },
               regs : {<<>>}, lines : [1..NumOwnerLines -> OwnerLineTexts]]

NextOwner == pc = "idle" /\ \E f \in OwnerFiles : AnalyzeWithContext(f, {})

SpecOwner == Init /\ [][NextOwner]_vars

\* files with Handlers.add calls over all matchers and bodies of the model
HandlerBodies == {"write", "assert_write", "frozen_write", "check_record", "reply"}
HandlerRegs ==
    {HandlersAdd(n, ln, m, b) : n \in Names, ln \in RegLines, m \in MatcherKinds, b \in HandlerBodies}
HandlerFiles ==
    [path : { <<"src", "process.lua">> },
     regs : OnePerLineSeqs(HandlerRegs, MaxBodyHandlers),
     lines : {BlankLines}]

NextHandlers == pc = "idle" /\ \E f \in HandlerFiles : AnalyzeWithContext(f, {})

SpecHandlers == Init /\ [][NextHandlers]_vars

\* sources without handlers whose lines hold the text of the rule pattern "x",
\* of the guard pattern "g", or other text, audited with one dynamic rule
RuleLineTexts == { <<"x">>, <<"g">>, <<".">> }
RuleFiles == [path : { <<"src", "process.lua">> }, regs : {<<>>},
              lines : [1..NumRuleLines -> RuleLineTexts]]
GuardedRules ==
    {Rule("R1", "high", "regex", "x", c, f, n, {"lua"}) :
         c \in {"", "g"}, f \in {"", "g"}, n \in {0, 1}}
    \cup {Rule("R1", "high", "handler_analysis", "x", "", "", 0, {"lua"})}

NextRule ==
    pc = "idle" /\ \E f \in RuleFiles, r \in GuardedRules :
                       Analyze(f, [loaded |-> TRUE, rules |-> <<r>>])

SpecRule == Init /\ [][NextRule]_vars

\* files with Handlers.add calls over the inline matchers of the model
MatcherRegs ==
    {HandlersAdd(n, ln, m, "write") : n \in Names, ln \in RegLines, m \in InlineMatcherKinds}
MatcherFiles ==
    [path : { <<"src", "process.lua">> },
     regs : OnePerLineSeqs(MatcherRegs, MaxMatcherHandlers),
     lines : {BlankLines}]

NextMatcher == pc = "idle" /\ \E f \in MatcherFiles : AnalyzeWithContext(f, {})

SpecMatcher == Init /\ [][NextMatcher]_vars

\* modules of one handler: a first line, the registration, its function and the lines after
ScanBodyLines == { <<AssignCounter>>, <<".">> }
ScanClosings == { << <<"end">>, <<")">> >>, << <<"end", ")">> >> }
ScanFiles ==
    [path : { <<"src", "process.lua">> },
     regs : {<<>>},
     lines : { <<first>> \o << <<"Handlers.add(">>, <<"function(">> >> \o body \o closing \o <<last>> :
                 first \in { <<LocalCounter>>, <<".">> },
                 body \in SeqsUpTo(ScanBodyLines, MaxScanBody),
                 closing \in ScanClosings,
                 last \in ScanBodyLines }]

NextScan == pc = "idle" /\ \E f \in ScanFiles : AnalyzeWithContext(f, {})

SpecScan == Init /\ [][NextScan]_vars

\* sources that start with an owner fallback, followed by asserts and other lines
GuardFiles ==
    [path : { <<"src", "process.lua">> },
     regs : {<<>>},
     lines : {l \in [1..NumGuardLines -> { <<OwnerOrSender>>, <<OwnerOrEnv>>, <<AssertOwnerNotNil>>, <<".">> }] :
                 /\ l[1] \in { <<OwnerOrSender>>, <<OwnerOrEnv>> }
                 /\ \A k \in 2..NumGuardLines : l[k] \in { <<AssertOwnerNotNil>>, <<".">> }}]

NextGuard == pc = "idle" /\ \E f \in GuardFiles : AnalyzeWithContext(f, {})

SpecGuard == Init /\ [][NextGuard]_vars

\* sources made of owner initialisations in any order: the helper of the Safe library,
\* a direct assignment in the State table, a fallback with its assert, an explicit nil
OwnerIdioms == { << <<SafeInit>> >>,
                 << <<StateEq, OwnerEnv>> >>,
                 << <<OwnerOrEnv>>, <<AssertOwnerNotNil>> >>,
                 << <<StateEq, OwnerNil>> >>,
                 << <<".">> >> }
IdiomFiles ==
    [path : { <<"src", "process.lua">> },
     regs : {<<>>},
     lines : {Flatten(blocks) : blocks \in SeqsUpTo(OwnerIdioms, MaxIdioms)}]

NextIdiom == pc = "idle" /\ \E f \in IdiomFiles : AnalyzeWithContext(f, {})

SpecIdiom == Init /\ [][NextIdiom]_vars

\* StateAnalyzer.findStateAccessInRange(rootNode, startLine, endLine)
FindStateAccess(program, startLine, endLine) ==
    /\ pc' = "accessed"
    /\ input' = [tree |-> program, startLine |-> startLine, endLine |-> endLine]
    /\ analysis' = StateAccessInRange(program, startLine, endLine)
    /\ UNCHANGED <<rules, thrown, report, prevReport, batch, diffIn, diff, skills, parsed>>

\* statements that read and write fields of the State table
Statements ==
    { \* State.Owner = msg.From
      << Node("assignment_statement", <<>>, 0, ""), Node("variable_list", <<>>, 1, ""),
         Node("dot_index_expression", <<"State", "Owner">>, 2, "name"),
         Node("expression_list", <<>>, 1, ""),
         Node("dot_index_expression", <<"msg", "From">>, 4, "value") >>,
      \* local owner = State.Owner
      << Node("variable_declaration", <<>>, 0, ""), Node("assignment_statement", <<>>, 1, ""),
         Node("variable_list", <<>>, 2, ""), Node("identifier", <<"owner">>, 3, "name"),
         Node("expression_list", <<>>, 2, ""),
         Node("dot_index_expression", <<"State", "Owner">>, 5, "value") >>,
      \* State.Count = State.Count + 1
      << Node("assignment_statement", <<>>, 0, ""), Node("variable_list", <<>>, 1, ""),
         Node("dot_index_expression", <<"State", "Count">>, 2, "name"),
         Node("expression_list", <<>>, 1, ""), Node("binary_expression", <<>>, 4, "value"),
         Node("dot_index_expression", <<"State", "Count">>, 5, "left") >>,
      \* State.Data[State.Index] = msg.Data
      << Node("assignment_statement", <<>>, 0, ""), Node("variable_list", <<>>, 1, ""),
         Node("bracket_index_expression", <<>>, 2, "name"),
         Node("dot_index_expression", <<"State", "Data">>, 3, "table"),
         Node("dot_index_expression", <<"State", "Index">>, 3, "field"),
         Node("expression_list", <<>>, 1, ""),
         Node("dot_index_expression", <<"msg", "Data">>, 6, "value") >>,
      \* State.Config.Owner = msg.From
      << Node("assignment_statement", <<>>, 0, ""), Node("variable_list", <<>>, 1, ""),
         Node("dot_index_expression", <<"State", "Config", "Owner">>, 2, "name"),
         Node("dot_index_expression", <<"State", "Config">>, 3, "table"),
         Node("expression_list", <<>>, 1, ""),
         Node("dot_index_expression", <<"msg", "From">>, 5, "value") >>,
      \* assert(State.Owner ~= nil)
      << Node("function_call", <<>>, 0, ""), Node("arguments", <<>>, 1, "arguments"),
         Node("binary_expression", <<>>, 2, ""),
         Node("dot_index_expression", <<"State", "Owner">>, 3, "left") >> }

NextAccess ==
    pc = "idle" /\ \E program \in SeqsUpTo(Statements, MaxStatements) \ {<<>>} :
                      \E startLine \in 1..Len(program) : \E endLine \in startLine..Len(program) :
                          FindStateAccess(program, startLine, endLine)

SpecAccess == Init /\ [][NextAccess]_vars

\* the diff engine on two audit results
\* the audit command on the sources, with the rules of a skills directory
Audit(sources, skillFiles) ==
    /\ skills' = skillFiles
    /\ rules' = loadFromSkillsDirectory(skillFiles)
    /\ parsed' = MapSeq(sources, parse)
    /\ batch' = auditCommand(MapSeq(sources, parse), loadFromSkillsDirectory(skillFiles)).result
    /\ pc' = IF auditCommand(MapSeq(sources, parse), loadFromSkillsDirectory(skillFiles)).ok
             THEN "audited" ELSE "failed"
    /\ UNCHANGED <<input, thrown, analysis, report, prevReport, diffIn, diff>>

NextAudit ==
    pc = "idle" /\ \E fs \in SeqsUpTo(AuditSources, MaxAuditFiles), sk \in SkillDirs :
                       Audit(fs, sk)

SpecAudit == Init /\ [][NextAudit]_vars

NextDiff ==
    pc = "idle" /\ \E b \in SeqsUpTo(DiffFindings, MaxBaseline), c \in SeqsUpTo(DiffFindings, MaxCurrent) :
                       Diff(AuditOf(b), AuditOf(c))

SpecDiff == Init /\ [][NextDiff]_vars

----------------------------------------------------------------------------
(* Properties *)

AuditDone == pc \in {"analyzed", "reported", "rerun"}
Reported == pc \in {"reported", "rerun"}
Ctx == analysis.context
ProcessFile == ~Ctx.isLibrary /\ ~Ctx.isTestFile

HasFindingAt(fs, c, ln) == \E i \in 1..Len(fs) : fs[i].code = c /\ fs[i].line = ln
ExactlyOne(a, b) == (a \/ b) /\ ~(a /\ b)

\* C1 as stated: in every analyzed file, each handler with mutatesState has
\* either an authorization location other than none or a missing-authorization
\* finding at its start line, and not both.
C1_CoverageEveryFile ==
    AuditDone =>
        \A i \in 1..Len(Ctx.handlers) :
            Ctx.handlers[i].mutatesState =>
                ExactlyOne(Ctx.handlers[i].authLocation # "none",
                           HasFindingAt(analysis.findings, "NO_AUTH_CHECK",
                                        Ctx.handlers[i].startLine))

\* C1 amended: in an analyzed file that is neither a library nor a test file,
\* each handler with mutatesState on whose start line no other handler starts
\* has either an authorization location other than none or a
\* missing-authorization finding at its start line, and not both.
C1_Coverage ==
    (AuditDone /\ ProcessFile) =>
        \A i \in 1..Len(Ctx.handlers) :
            (/\ Ctx.handlers[i].mutatesState
             /\ \A j \in 1..Len(Ctx.handlers) :
                    j # i => Ctx.handlers[j].startLine # Ctx.handlers[i].startLine) =>
                ExactlyOne(Ctx.handlers[i].authLocation # "none",
                           HasFindingAt(analysis.findings, "NO_AUTH_CHECK",
                                        Ctx.handlers[i].startLine))

\* a process file with one mutating handler without authorization (reported)
\* and one mutating handler with authorization (not reported)
C1_Witness ==
    /\ pc = "analyzed" /\ ProcessFile
    /\ \E i, j \in 1..Len(Ctx.handlers) :
           /\ Ctx.handlers[i].startLine # Ctx.handlers[j].startLine
           /\ Ctx.handlers[i].mutatesState /\ Ctx.handlers[i].authLocation = "none"
           /\ HasFindingAt(analysis.findings, "NO_AUTH_CHECK", Ctx.handlers[i].startLine)
           /\ Ctx.handlers[j].mutatesState /\ Ctx.handlers[j].authLocation # "none"
           /\ ~HasFindingAt(analysis.findings, "NO_AUTH_CHECK", Ctx.handlers[j].startLine)

\* C2: no two findings of a file's audit result (built-in and dynamic rule
\* findings together) share the same (code, line) pair.
C2_NoDuplicateCodeLine ==
    Reported =>
        \A i, j \in 1..Len(report.findings) :
            i # j => ~(/\ report.findings[i].code = report.findings[j].code
                       /\ report.findings[i].line = report.findings[j].line)

\* C3: the finding list of a file's audit result (built-in and dynamic rule
\* findings together) is non-decreasing in severity rank and, within one
\* severity, non-decreasing in line number.
C3_Ordered ==
    Reported =>
        \A i \in 1..(Len(report.findings) - 1) :
            LET a == report.findings[i]
                b == report.findings[i + 1]
            IN \/ severityOrder[a.severity] < severityOrder[b.severity]
               \/ (a.severity = b.severity /\ a.line <= b.line)

BaselineFindings ==
    {[file |-> diffIn.baseline.files[i].file, f |-> diffIn.baseline.files[i].findings[k]] :
         i \in 1..1, k \in 1..Len(diffIn.baseline.files[1].findings)}
CurrentFindings ==
    {[file |-> diffIn.current.files[i].file, f |-> diffIn.current.files[i].findings[k]] :
         i \in 1..1, k \in 1..Len(diffIn.current.files[1].findings)}

Identity(x) == <<x.file, x.code, x.severity, x.handler>>
Occurrence(x) == <<x.file, x.code, x.severity, x.handler, x.line>>
InWithFile(x) == WithFile(x.file, x.f)
SeqRange(s) == {s[i] : i \in 1..Len(s)}

ExactMatched(b) == \E c \in CurrentFindings : Occurrence(InWithFile(c)) = Occurrence(b)
Relocated(b) == \E m \in SeqRange(diff.moved_findings) :
                    Identity(m.finding) = Identity(b) /\ m.from_line = b.line

\* C5: every baseline finding that was neither exact-matched by a current
\* finding nor consumed by a relocation appears in resolved_findings.
C5_UnconsumedIsResolved ==
    pc = "diffed" =>
        \A b \in BaselineFindings :
            (~ExactMatched(InWithFile(b)) /\ ~Relocated(InWithFile(b))) =>
                InWithFile(b) \in SeqRange(diff.resolved_findings)

\* C6: no finding identity (file, code, severity, handler) occurs both in
\* new_findings and in resolved_findings.
C6_NewResolvedDisjoint ==
    pc = "diffed" =>
        \A n \in SeqRange(diff.new_findings), r \in SeqRange(diff.resolved_findings) :
            Identity(n) # Identity(r)

\* a diff with new findings and resolved findings
C6_Witness ==
    pc = "diffed" /\ diff.new_findings # <<>> /\ diff.resolved_findings # <<>>

\* C7: regression_detected is true exactly when new_findings holds a finding
\* of severity critical or high.
C7_Regression ==
    pc = "diffed" =>
        (diff.regression_detected <=>
            \E n \in SeqRange(diff.new_findings) : n.severity \in {"critical", "high"})

\* a diff whose only new finding is of severity high
C7_Witness ==
    /\ pc = "diffed" /\ diff.regression_detected
    /\ \A n \in SeqRange(diff.new_findings) : n.severity = "high"

BatchFindings == UNION {SeqRange(batch.files[i].findings) : i \in 1..Len(batch.files)}

\* C8: the pass flag is true exactly when the files of the report hold no
\* finding of severity critical or high, built-in or from a dynamic rule.
C8_Pass ==
    pc = "batch" =>
        (batch.pass <=> \A f \in BatchFindings : f.severity \notin {"critical", "high"})

\* a batch of two files with built-in findings that fails only because of the
\* finding of a dynamic rule
C8_Witness ==
    /\ pc = "batch" /\ Len(batch.files) = 2 /\ ~batch.pass
    /\ \E f \in BatchFindings : f.code # "R1"
    /\ \A f \in BatchFindings : f.severity \in {"critical", "high"} => f.code = "R1"

MatcherChecksSender(r) == r.call = "Handlers.add" /\ "msg.From" \in MatcherText(r)
BodyMutates(r) == \E k \in 1..Len(r.body) : r.body[k].writes
BodyHasAuthCheck(r) ==
    \E k \in 1..Len(r.body) :
        \/ /\ r.body[k].type = "function_call" /\ "assert" \in r.body[k].toks
           /\ ("msg.From" \in r.body[k].toks \/ "State.Owner" \in r.body[k].toks)
        \/ /\ r.body[k].type = "if_statement"
           /\ "msg.From" \in r.body[k].toks /\ "State.Owner" \in r.body[k].toks

\* C9: every state-mutating handler whose matcher checks the sender identity
\* and whose body holds no authorization check gets a medium
\* belt-and-suspenders finding at its line. Stated for the files where the
\* check is eligible (neither library nor test file) and for handlers that
\* share neither their name nor their line with another handler.
C9_BeltAndSuspenders ==
    (AuditDone /\ ProcessFile) =>
        \A k \in 1..Len(input.regs) :
            LET r == input.regs[k]
            IN (/\ \A j \in 1..Len(input.regs) :
                       j # k => (input.regs[j].name # r.name /\ input.regs[j].line # r.line)
                /\ MatcherChecksSender(r) /\ BodyMutates(r) /\ ~BodyHasAuthCheck(r)) =>
                   \E i \in 1..Len(analysis.findings) :
                       /\ analysis.findings[i].code = "MISSING_BELT_AND_SUSPENDERS"
                       /\ analysis.findings[i].severity = "medium"
                       /\ analysis.findings[i].line = r.line

FindingsOf(fs, c) == SelectSeq(fs, LAMBDA f : f.code = c)

\* C10: when the evaluator of a check throws, the run still ends with a
\* result, the throwing check contributes no finding, and every other check
\* contributes the findings it contributes when nothing throws.
C10_ThrowIsContained ==
    pc = "analyzed" =>
        \A c \in CheckIds :
            FindingsOf(analysis.raw, c) =
                IF c \in thrown THEN <<>>
                ELSE FindingsOf(analyzeWithContext(input, {}).raw, c)

\* the first check of the registry threw and a later check reported
C10_Witness ==
    /\ pc = "analyzed" /\ thrown = {"NO_AUTH_CHECK"}
    /\ FindingsOf(analysis.raw, "NO_FROZEN_CHECK") # <<>>
    /\ FindingsOf(analyzeWithContext(input, {}).raw, "NO_AUTH_CHECK") # <<>>

\* ---- C11, C12, C17: rule loading and parse errors in the audit command ----

AuditEnded == pc \in {"audited", "failed"}

\* the entries of all skill files that were read
LoadedEntries ==
    Flatten(MapSeq(SelectSeq(skills, LAMBDA f : f.parses), LAMBDA f : f.anti_patterns))

HasEntry(P(_)) == \E i \in 1..Len(LoadedEntries) : P(LoadedEntries[i])

InvalidPatternEntry(ap) ==
    ap.kind = "structured" /\ ap.detection.type = "regex" /\ ~ValidPattern(ap.detection.pattern)

\* C11: a rule entry whose pattern does not compile never makes the audit
\* fail and is not among the loaded rules
C11_InvalidPatternSkipped ==
    (AuditEnded /\ HasEntry(InvalidPatternEntry))
        => /\ pc = "audited"
           /\ \A i \in 1..Len(rules.rules) : ValidPattern(rules.rules[i].detection.pattern)

RecognizedRule(rule) ==
    \/ rule.detection.type = "regex" /\ rule.detection.pattern # ""
    \/ rule.detection.type = "handler_analysis"

\* C17: an entry that is malformed (a regex entry without pattern) or has an
\* unrecognized detection type is not added to the loaded rule set
C17_MalformedEntrySkipped ==
    AuditEnded => \A i \in 1..Len(rules.rules) : RecognizedRule(rules.rules[i])

\* the positions of the batch whose file did not parse, and the others
FailedAt(i) == ~parsed[i].success
ParsedOnly == SelectSeq(parsed, LAMBDA r : r.success)

RECURSIVE ReportsOfParsed(_, _)
ReportsOfParsed(i, acc) ==
    IF i > Len(parsed) THEN acc
    ELSE ReportsOfParsed(i + 1, IF FailedAt(i) THEN acc ELSE Append(acc, batch.files[i]))

\* C12: in a batch audited with well-formed rules, a file with a syntax error
\* has a parse-error result and a report without findings, and the reports of
\* the other files are those of the batch without it
C12_ParseErrorContributesNothing ==
    (pc = "audited" /\ \A i \in 1..Len(rules.rules) : RecognizedRule(rules.rules[i]))
        => /\ \A i \in 1..Len(parsed) :
                  FailedAt(i) => /\ "error" \in DOMAIN parsed[i]
                                 /\ batch.files[i].summary.total = 0
           /\ ReportsOfParsed(1, <<>>)
                  = analyzeMultiple(MapSeq(ParsedOnly, SourceOf), rules).files

\* ---- C13: wrapper handlers ----

\* the registration that the handler map holds for a name: the last one
LastReg(name) ==
    input.regs[CHOOSE k \in 1..Len(input.regs) :
                   /\ input.regs[k].name = name
                   /\ \A j \in (k + 1)..Len(input.regs) : input.regs[j].name # name]

IsWrapper(r) == r.call \in {"Safe.handler", "Safe.query"}

\* the options of a Safe.handler call request a check unless they switch it
\* off (owner = false, frozen = false) or declare the handler public
OptionsRequest(r, check) ==
    /\ r.call = "Safe.handler"
    /\ (check \o "=false") \notin r.options
    /\ "public=true" \notin r.options

\* C13: for authorization and stop-flag alike, the location of a handler is
\* internal exactly when it is registered through the safety wrapper and its
\* options request the check; a wrapper handler whose options do not request
\* the check has location none, whatever its body holds
C13_InternalIffWrapperRequests ==
    AuditDone =>
        \A i \in 1..Len(Ctx.handlers) :
            LET h == Ctx.handlers[i]
                r == LastReg(h.name)
            IN /\ h.authLocation = "internal" <=> (IsWrapper(r) /\ OptionsRequest(r, "owner"))
               /\ h.frozenLocation = "internal" <=> (IsWrapper(r) /\ OptionsRequest(r, "frozen"))
               /\ (IsWrapper(r) /\ ~OptionsRequest(r, "owner")) => h.authLocation = "none"
               /\ (IsWrapper(r) /\ ~OptionsRequest(r, "frozen")) => h.frozenLocation = "none"

\* a wrapper handler with owner = false whose body asserts the sender, next to
\* one with frozen = false whose body asserts the stop flag
C13_Witness ==
    /\ pc = "analyzed"
    /\ Len(Ctx.handlers) = 2
    /\ \E i, j \in 1..2 :
           /\ LastReg(Ctx.handlers[i].name) = SafeHandler(Ctx.handlers[i].name, 1, {"owner=false"}, "assert_write")
           /\ Ctx.handlers[i].authLocation = "none"
           /\ Ctx.handlers[i].frozenLocation = "internal"
           /\ LastReg(Ctx.handlers[j].name) = SafeHandler(Ctx.handlers[j].name, 2, {"frozen=false"}, "frozen_write")
           /\ Ctx.handlers[j].authLocation = "internal"
           /\ Ctx.handlers[j].frozenLocation = "none"

\* ---- C14: hasMatchingTag handler without / with a body assertion ----

\* the registration at position k shares neither its name nor its line with
\* another registration of the file
AloneAt(k) ==
    \A j \in 1..Len(input.regs) :
        j # k => (input.regs[j].name # input.regs[k].name
                  /\ input.regs[j].line # input.regs[k].line)

\* the findings of a check for the handler registered by r
FindingsFor(c, r) ==
    SelectSeq(analysis.findings,
              LAMBDA f : f.code = c /\ f.line = r.line /\ f.message = r.name)

FindingsAtLine(c, ln) ==
    SelectSeq(analysis.findings, LAMBDA f : f.code = c /\ f.line = ln)

OneCriticalAt(c, ln) ==
    Len(FindingsAtLine(c, ln)) = 1 /\ FindingsAtLine(c, ln)[1].severity = "critical"

\* no line after line ln asserts that the owner is not nil
NoFollowingAssert(ln) ==
    \A k \in (ln + 1)..Len(input.lines) : ~LineHas(input.lines[k], AssertOwnerNotNil)

\* C15: in a process file, a line State.Owner = State.Owner or msg.From gets a
\* critical first-caller-wins finding in any case; it gets a critical
\* unsafe-fallback finding when no assertion follows, and none when the next
\* line asserts that the owner is not nil
C15_OwnerFallbackScenario ==
    (pc = "analyzed" /\ ProcessFile) =>
        \A ln \in 1..Len(input.lines) :
            LineHas(input.lines[ln], OwnerOrSender) =>
                /\ OneCriticalAt("FIRST_CALLER_WINS_OWNER", ln)
                /\ NoFollowingAssert(ln) => OneCriticalAt("UNSAFE_OWNER_OR_PATTERN", ln)
                /\ (ln < Len(input.lines) /\ LineHas(input.lines[ln + 1], AssertOwnerNotNil))
                       => FindingsAtLine("UNSAFE_OWNER_OR_PATTERN", ln) = <<>>

\* a file with the assignment followed by the assertion, then the assignment alone
C15_Witness ==
    /\ pc = "analyzed" /\ ProcessFile
    /\ input.lines = << <<OwnerOrSender>>, <<AssertOwnerNotNil>>, <<OwnerOrSender>> >>
    /\ OneCriticalAt("FIRST_CALLER_WINS_OWNER", 1)
    /\ FindingsAtLine("UNSAFE_OWNER_OR_PATTERN", 1) = <<>>
    /\ OneCriticalAt("FIRST_CALLER_WINS_OWNER", 3)
    /\ OneCriticalAt("UNSAFE_OWNER_OR_PATTERN", 3)

\* ---- C16, C19, C20: relocations in the diff ----

BaseSeq == diffIn.baseline.files[1].findings
CurSeq == diffIn.current.files[1].findings

\* the two reports differ only in the finding at position k, whose line is
\* shifted by +3 in the current report
ShiftedOnlyAt(k) ==
    /\ Len(BaseSeq) = Len(CurSeq)
    /\ k \in 1..Len(BaseSeq)
    /\ CurSeq[k] = [BaseSeq[k] EXCEPT !.line = @ + 3]
    /\ \A j \in 1..Len(BaseSeq) : j # k => CurSeq[j] = BaseSeq[j]

\* C16: when the baseline and the current report differ only in one finding
\* whose line is shifted by +3, the diff holds exactly one moved finding, no
\* new finding, no resolved finding, and regression_detected is false
C16_ShiftIsOneMove ==
    (pc = "diffed" /\ \E k \in 1..Len(BaseSeq) : ShiftedOnlyAt(k)) =>
        /\ Len(diff.moved_findings) = 1
        /\ diff.new_findings = <<>>
        /\ diff.resolved_findings = <<>>
        /\ ~diff.regression_detected

\* ---- C18: location of the authorization check of a Handlers.add handler ----

HandlerNamed(name) == Ctx.handlers[CHOOSE i \in 1..Len(Ctx.handlers) : Ctx.handlers[i].name = name]

\* the location the fusion rule gives for evidence in the matcher and in the body
FusedLocation(inMatcher, inBody) ==
    IF inMatcher /\ inBody THEN "both"
    ELSE IF inMatcher THEN "matcher"
    ELSE IF inBody THEN "body"
    ELSE "none"

\* C18: for a handler registered with Handlers.add, the authorization location
\* is both when the matcher and the body each hold an authorization check,
\* matcher or body when only that one does, none when neither does; a check
\* in the matcher does not count as a check in the body
C18_LocationFromIndependentEvidence ==
    AuditDone =>
        \A k \in 1..Len(input.regs) :
            (AloneAt(k) /\ input.regs[k].call = "Handlers.add") =>
                HandlerNamed(input.regs[k].name).authLocation
                    = FusedLocation(MatcherChecksSender(input.regs[k]),
                                    BodyHasAuthCheck(input.regs[k]))

BaseWithFile == extractFindings(diffIn.baseline)
CurWithFile == extractFindings(diffIn.current)

HasExactBaseline(c) == createStrictFindingKey(c.file, c) \in StrictKeys(BaseWithFile)

\* the baseline finding b is the source of a relocation
RelocationSource(b) ==
    \E i \in 1..Len(diff.moved_findings) :
        /\ createFindingKey(diff.moved_findings[i].finding.file, diff.moved_findings[i].finding)
               = createFindingKey(b.file, b)
        /\ diff.moved_findings[i].from_line = b.line

OnlyOccurrence(b) ==
    Cardinality({k \in 1..Len(BaseWithFile) :
                    createStrictFindingKey(BaseWithFile[k].file, BaseWithFile[k])
                        = createStrictFindingKey(b.file, b)}) = 1

\* C20: a baseline finding that was consumed by a relocation is not also the
\* exact match of a current finding, in whatever order the current findings
\* are processed
C20_MatchedAtMostOnce ==
    pc = "diffed" =>
        \A b \in SeqRange(BaseWithFile) :
            (OnlyOccurrence(b) /\ Relocated(b)) => ~ExactMatched(b)

\* ---- C21: what counts as an authorization check of the body ----

\* a statement of the body that is by itself an authorization check: an
\* assertion call or a conditional that names the sender or the owner
AuthStatement(st) ==
    /\ \/ st.type = "function_call" /\ "assert" \in st.toks
       \/ st.type = "if_statement"
    /\ ("msg.From" \in st.toks \/ "State.Owner" \in st.toks)

BodyAuthEvidence(r) == \E k \in 1..Len(r.body) : AuthStatement(r.body[k])

\* C21: a handler registered with Handlers.add is credited with an
\* authorization check of its body (location body or both) only when one
\* statement of the body is an assertion or conditional that names the sender
\* or the owner
C21_BodyCreditNeedsOneStatement ==
    AuditDone =>
        \A k \in 1..Len(input.regs) :
            (/\ AloneAt(k) /\ input.regs[k].call = "Handlers.add"
             /\ HandlerNamed(input.regs[k].name).authLocation \in {"body", "both"})
                => BodyAuthEvidence(input.regs[k])

\* ---- C22: one HandlerContext per extracted handler ----

\* C22: the handler map of the context holds one HandlerContext for every
\* handler that findHandlers extracts from the file, also when two
\* registrations use the same name
C22_OneContextPerHandler ==
    AuditDone => Len(Ctx.handlers) = Len(findHandlers(input.regs))

\* ---- C23, C24: the lines a dynamic rule reports ----

TheRule == rules.rules[1]
RuleReports(ln) == \E i \in 1..Len(report.findings) :
                       report.findings[i].code = TheRule.id /\ report.findings[i].line = ln

\* N: lines_to_check of the rule, 5 when not given
WindowOf(rule) == IF rule.detection.lines_to_check # 0 THEN rule.detection.lines_to_check ELSE 5

GuardConfigured(rule) ==
    rule.detection.requires_context # "" \/ rule.detection.requires_following # ""

\* a configured guard is found in its window around line ln
GuardFound(rule, ln) ==
    \/ /\ rule.detection.requires_context # ""
       /\ \E k \in 1..Len(input.lines) :
              /\ k <= ln /\ k >= ln - WindowOf(rule)
              /\ LineHas(input.lines[k], rule.detection.requires_context)
    \/ /\ rule.detection.requires_following # ""
       /\ \E k \in 1..Len(input.lines) :
              /\ k > ln /\ k <= ln + WindowOf(rule)
              /\ LineHas(input.lines[k], rule.detection.requires_following)

\* C23: a regex rule reports line L exactly when line L matches its pattern
\* and either no guard is configured or no configured guard is found in its
\* window (the line and the N lines before it for requires_context, the N
\* lines after it for requires_following)
C23_RegexRuleReports ==
    (pc = "reported" /\ Len(rules.rules) = 1 /\ TheRule.detection.type = "regex") =>
        \A ln \in 1..Len(input.lines) :
            RuleReports(ln) <=>
                /\ LineHas(input.lines[ln], TheRule.detection.pattern)
                /\ (~GuardConfigured(TheRule) \/ ~GuardFound(TheRule, ln))

\* the source in which every line outside the guard window of line ln holds
\* other text; a rule without guard has the window ln..ln
WindowOnly(rule, ln) ==
    [k \in 1..Len(input.lines) |->
        IF GuardConfigured(rule) /\ k >= ln - WindowOf(rule) /\ k <= ln + WindowOf(rule)
        THEN input.lines[k]
        ELSE IF k = ln THEN input.lines[k] ELSE <<".">>]

\* C24: whether a rule reports line L depends only on the text of line L and
\* of the lines in its guard window: the rule reports L in the file exactly
\* when it reports L in the file whose other lines hold other text
C24_ReportDependsOnWindowOnly ==
    (pc = "reported" /\ Len(rules.rules) = 1) =>
        \A ln \in 1..Len(input.lines) :
            RuleReports(ln) <=>
                \E i \in 1..Len(applyRule(TheRule, WindowOnly(TheRule, ln))) :
                    applyRule(TheRule, WindowOnly(TheRule, ln))[i].line = ln

\* ---- C25: strictness of an inline matcher ----

ChecksSender(r) == "msg.From" \in MatcherText(r)
ValidatesPayload(r) == "type(" \in MatcherText(r) \/ "pcall" \in MatcherText(r)
ChecksStopFlag(r) == "State.Frozen" \in MatcherText(r)
NumChecks(r) ==
    (IF ChecksSender(r) THEN 1 ELSE 0) + (IF ValidatesPayload(r) THEN 1 ELSE 0)
        + (IF ChecksStopFlag(r) THEN 1 ELSE 0)

InlineAt(k) ==
    /\ AloneAt(k) /\ input.regs[k].call = "Handlers.add"
    /\ input.regs[k].matcherType = "function_definition"

\* C25 as stated: an inline matcher is strict iff it checks the sender and
\* validates the payload, moderate iff it checks exactly one of sender,
\* payload, stop flag, and loose in every other case
C25_ModerateIffExactlyOne ==
    pc = "analyzed" =>
        \A k \in 1..Len(input.regs) :
            InlineAt(k) =>
                LET r == input.regs[k]
                    st == HandlerNamed(r.name).strictness
                IN /\ st = "strict" <=> (ChecksSender(r) /\ ValidatesPayload(r))
                   /\ st = "moderate" <=> NumChecks(r) = 1
                   /\ st = "loose" <=> ~(ChecksSender(r) /\ ValidatesPayload(r)) /\ NumChecks(r) # 1

\* C25, amended: an inline matcher is strict iff it checks the sender and
\* validates the payload, moderate iff it is not strict and checks at least
\* one of sender, payload, stop flag, and loose iff it checks none of them,
\* as the always-true predicate does
C25_ModerateIffSomeCheck ==
    pc = "analyzed" =>
        \A k \in 1..Len(input.regs) :
            InlineAt(k) =>
                LET r == input.regs[k]
                    st == HandlerNamed(r.name).strictness
                IN /\ st = "strict" <=> (ChecksSender(r) /\ ValidatesPayload(r))
                   /\ st = "moderate" <=> (~(ChecksSender(r) /\ ValidatesPayload(r)) /\ NumChecks(r) >= 1)
                   /\ st = "loose" <=> NumChecks(r) = 0

\* a matcher that checks the sender and the stop flag next to the always-true one
C25_Witness ==
    /\ pc = "analyzed"
    /\ input.regs = <<HandlersAdd("Update", 1, "fn_from_frozen", "write"),
                      HandlersAdd("Get", 2, "fn_true", "write")>>
    /\ HandlerNamed("Update").strictness = "moderate"
    /\ HandlerNamed("Get").strictness = "loose"

\* the scanner of MODULE_LEVEL_MUTABLE_STATE after line i of the analysed source
ScannerAt(i) == ScanLines(input.lines, i)

\* line i assigns a file-scope local while the scanner is inside a handler function
AssignsModuleLocalInside(i) ==
    /\ LineHas(input.lines[i], AssignCounter)
    /\ ScannerAt(i).inHandler /\ ScannerAt(i).handlerDepth > 0
    /\ \E k \in 1..Len(ScannerAt(i).moduleLocals) : ScannerAt(i).moduleLocals[k] = "counter"

ReportedHighAt(i) ==
    \E k \in 1..Len(analysis.findings) :
        /\ analysis.findings[k].code = "MODULE_LEVEL_MUTABLE_STATE"
        /\ analysis.findings[k].severity = "high"
        /\ analysis.findings[k].line = i

\* C26: every assignment to a file-scope local made while the scanner's nesting
\* depth is above zero is reported as a high finding at the line of the assignment
C26_EveryInnerAssignmentReported ==
    pc = "analyzed" =>
        \A i \in 1..Len(input.lines) : AssignsModuleLocalInside(i) => ReportedHighAt(i)

\* the analysed source with the fallback of its first line written in the other form
WithFallback(form) == [input.lines EXCEPT ![1] = <<form>>]

\* the unsafe-fallback check takes the assignment of line 1 as guarded by an assert
CheckAcceptsAssert ==
    IF input.lines[1] = <<OwnerOrSender>>
    THEN ~\E k \in 1..Len(analysis.findings) :
             analysis.findings[k].code = "UNSAFE_OWNER_OR_PATTERN" /\ analysis.findings[k].line = 1
    ELSE UNSAFE_OWNER_OR_PATTERN([sourceLines |-> WithFallback(OwnerOrSender)]) = <<>>

\* the state profile takes the assignment of line 1 as guarded by an assert
ProfilerAcceptsAssert ==
    IF input.lines[1] = <<OwnerOrEnv>>
    THEN analysis.context.state.ownerSource = "or_with_assert"
    ELSE analyzeStateInit(WithFallback(OwnerOrEnv)).ownerSource = "or_with_assert"

\* C27: the state profile and the unsafe-fallback check look for the non-nil assert
\* that guards an owner fallback in the same window of lines after the assignment:
\* for the same placement of the asserts, one accepts the guard iff the other does
C27_SameLookaheadWindow ==
    pc = "analyzed" => (CheckAcceptsAssert <=> ProfilerAcceptsAssert)

\* the analysed source holds a line with the text tok
SourceHas(tok) == \E i \in 1..Len(input.lines) : LineHas(input.lines[i], tok)

\* the analysed source holds an owner fallback with the assert on the next line
SourceHasGuardedFallback ==
    \E i \in 1..(Len(input.lines) - 1) :
        LineHas(input.lines[i], OwnerOrEnv) /\ LineHas(input.lines[i + 1], AssertOwnerNotNil)

\* the owner source of the idiom of highest priority in the analysed source
PrioritySource ==
    IF SourceHas(SafeInit) THEN "Safe.initState"
    ELSE IF SourceHas(OwnerEnv) THEN "ao.env.Process.Owner"
    ELSE IF SourceHasGuardedFallback THEN "or_with_assert"
    ELSE "null"

\* C28: the owner source and the initialised flag of the profile are those of the
\* idiom of highest priority in the file (helper, direct assignment, fallback with
\* assert, explicit nil), whatever the order of the idioms in the file
C28_OwnerFromHighestPriorityIdiom ==
    pc = "analyzed" =>
        /\ analysis.context.state.ownerSource = PrioritySource
        /\ analysis.context.state.ownerInitialized = (PrioritySource # "null")

\* the State accesses of the searched lines: <<line, node>> pairs
AccessNodes ==
    {ln \in (input.startLine..input.endLine) \X (1..7) :
        /\ ln[2] <= Len(input.tree[ln[1]])
        /\ input.tree[ln[1]][ln[2]].type = "dot_index_expression"
        /\ parseStateAccess(input.tree[ln[1]][ln[2]])}

\* node n of a statement is the target of the assignment, or the table the target indexes
RECURSIVE IsTarget(_, _)
IsTarget(stmt, n) ==
    LET p == stmt[n].parent
    IN /\ p # 0
       /\ \/ stmt[p].type = "variable_list" /\ stmt[p].parent # 0
             /\ stmt[stmt[p].parent].type = "assignment_statement"
          \/ stmt[n].role = "table" /\ IsTarget(stmt, p)

KeysOf(accesses) == {<<accesses[k].field, accesses[k].line>> : k \in 1..Len(accesses)}

KeysOfNodes(nodes) == {<<input.tree[ln[1]][ln[2]].text, ln[1]>> : ln \in nodes}

\* C29: a State access is classified as a write iff it is itself the target of its
\* enclosing assignment; every other State access is classified as a read
C29_WriteIffAssignmentTarget ==
    pc = "accessed" =>
        /\ KeysOf(analysis.writes) =
               KeysOfNodes({ln \in AccessNodes : IsTarget(input.tree[ln[1]], ln[2])})
        /\ KeysOf(analysis.reads) =
               KeysOfNodes({ln \in AccessNodes : ~IsTarget(input.tree[ln[1]], ln[2])})

\* the places of the findings cur whose strict key is among baseKeys
ExactPlacesOf(cur, baseKeys) ==
    {k \in 1..Len(cur) : createStrictFindingKey(cur[k].file, cur[k]) \in baseKeys}

\* the places of the current findings that have an exact match in the baseline
ExactPlaces == ExactPlacesOf(CurWithFile, StrictKeys(BaseWithFile))

\* the exact matches at the places exact, the relocated and the new findings make up cur
Partitioned(cur, exact, moved, new) ==
    /\ Cardinality(exact) + Len(moved) + Len(new) = Len(cur)
    /\ \A k \in exact :
           /\ \A i \in 1..Len(new) : new[i] # cur[k]
           /\ \A i \in 1..Len(moved) : moved[i].finding # cur[k]

\* C30: every current finding is classified as exactly one of unchanged (exact
\* match), relocated or new: the exact matches, moved_findings and new_findings
\* add up to the current findings, and an exact match is neither moved nor new
C30_CurrentFindingsPartitioned ==
    pc = "diffed" =>
        Partitioned(CurWithFile, ExactPlaces, diff.moved_findings, diff.new_findings)

\* a diff of two current findings, one with an exact match and one relocated
C30_Witness ==
    /\ pc = "diffed"
    /\ Len(CurWithFile) = 2
    /\ Cardinality(ExactPlaces) = 1
    /\ Len(diff.moved_findings) = 1
    /\ diff.new_findings = <<>>
====
